---- MODULE Spec2Model ----
(***************************************************************************)
(* Model of mobile-dev-mcp's license / entitlement core:                   *)
(*   - the signed license cache file (loadCachedLicense, saveLicenseCache) *)
(*   - tier resolution (checkLicense) and remote validation                *)
(*     (validateWithLemonSqueezy, mapProductToTier, setLicenseKey)         *)
(*   - the tool access policy (canAccessTool, getMaxLogLines,              *)
(*     getMaxDevices) over FREE_TOOLS / ADVANCED_TOOLS / TIER_LIMITS       *)
(*   - the request handlers that call them (ListTools, CallTool).          *)
(*                                                                         *)
(* A JavaScript object is an ordered list of members [k, v]; a JavaScript  *)
(* string that the code inspects character by character is a sequence of   *)
(* one-character strings.  Time is Date.now() in milliseconds.             *)
(***************************************************************************)
EXTENDS Integers, Sequences, FiniteSets, TLC

(***************************************************************************)
(* Bounds of the model.                                                    *)
(***************************************************************************)
\* the clock advances in steps of TickMs, at most MaxTicks times
TickMs == 1800000
MaxTicks == 2

\* The request handlers.  The server is specified to serve a single caller
\* with a single request in flight.
Handlers == {"h1"}

(***************************************************************************)
(* JavaScript values and strings.                                          *)
(***************************************************************************)
JUndef == [t |-> "undefined", s |-> "", n |-> 0, c |-> <<>>]
JStr(s) == [t |-> "string", s |-> s, n |-> 0, c |-> <<>>]
JNum(n) == [t |-> "number", s |-> "", n |-> n, c |-> <<>>]
JChars(c) == [t |-> "string", s |-> "", n |-> 0, c |-> c]
JNull == [t |-> "null", s |-> "", n |-> 0, c |-> <<>>]
JBool(b) == [t |-> "boolean", s |-> IF b THEN "true" ELSE "false", n |-> 0, c |-> <<>>]

\* JavaScript truthiness of a value: undefined, false, 0 and "" are falsy
Truthy(v) ==
  CASE v.t = "undefined" -> FALSE
    [] v.t = "boolean" -> v.s = "true"
    [] v.t = "number" -> v.n # 0
    [] OTHER -> v.s # "" \/ v.c # <<>>

\* obj.key : the value of the first member named key, undefined when there is none
Get(obj, key) ==
  IF \E i \in 1..Len(obj) : obj[i].k = key
  THEN obj[CHOOSE i \in 1..Len(obj) : obj[i].k = key /\ \A j \in 1..(i - 1) : obj[j].k # key].v
  ELSE JUndef

\* JSON.stringify(obj): the members in order, those whose value is undefined left out
RECURSIVE Stringify(_)
Stringify(obj) ==
  IF obj = <<>> THEN <<>>
  ELSE IF Head(obj).v.t = "undefined" THEN Stringify(Tail(obj))
       ELSE <<Head(obj)>> \o Stringify(Tail(obj))

\* String.prototype.toLowerCase on ASCII letters
LowerOf(ch) ==
  CASE ch = "A" -> "a" [] ch = "B" -> "b" [] ch = "C" -> "c" [] ch = "D" -> "d"
    [] ch = "E" -> "e" [] ch = "F" -> "f" [] ch = "G" -> "g" [] ch = "H" -> "h"
    [] ch = "I" -> "i" [] ch = "J" -> "j" [] ch = "K" -> "k" [] ch = "L" -> "l"
    [] ch = "M" -> "m" [] ch = "N" -> "n" [] ch = "O" -> "o" [] ch = "P" -> "p"
    [] ch = "Q" -> "q" [] ch = "R" -> "r" [] ch = "S" -> "s" [] ch = "T" -> "t"
    [] ch = "U" -> "u" [] ch = "V" -> "v" [] ch = "W" -> "w" [] ch = "X" -> "x"
    [] ch = "Y" -> "y" [] ch = "Z" -> "z"
    [] OTHER -> ch

toLowerCase(str) == [i \in 1..Len(str) |-> LowerOf(str[i])]

\* String.prototype.includes: sub occurs in str as a contiguous substring
includes(str, sub) ==
  \E i \in 1..(Len(str) - Len(sub) + 1) : SubSeq(str, i, i + Len(sub) - 1) = sub

\* String.prototype.trim: white space and line terminators are removed
WhiteSpace == {" ", "\t", "\n", "\r"}

RECURSIVE trimStart(_)
trimStart(str) ==
  IF str # <<>> /\ Head(str) \in WhiteSpace THEN trimStart(Tail(str)) ELSE str

RECURSIVE trimEnd(_)
trimEnd(str) ==
  IF str # <<>> /\ str[Len(str)] \in WhiteSpace THEN trimEnd(SubSeq(str, 1, Len(str) - 1)) ELSE str

trim(str) == trimEnd(trimStart(str))

(***************************************************************************)
(* types.ts: the tier table and the tool sets.                             *)
(***************************************************************************)
FreeMaxLogLines == 50
FreeMaxDevices == 1
AdvancedMaxLogLines == 200
AdvancedMaxDevices == 3

TIER_LIMITS ==
  [free |-> [maxLogLines |-> FreeMaxLogLines, maxDevices |-> FreeMaxDevices],
   advanced |-> [maxLogLines |-> AdvancedMaxLogLines, maxDevices |-> AdvancedMaxDevices]]

FREE_TOOLS ==
  << "screenshot_emulator", "list_devices", "get_device_info", "get_app_info",
     "get_adb_logs", "get_metro_logs", "check_metro_status", "get_license_status" >>

ADVANCED_TOOLS_NoSpread ==
  << "screenshot_ios_simulator", "list_ios_simulators", "get_ios_simulator_info",
     "get_ios_simulator_logs", "get_ui_tree", "find_element", "wait_for_element",
     "get_element_property", "assert_element", "suggest_action", "analyze_screen",
     "get_screen_text", "set_license_key" >>

ADVANCED_TOOLS ==
  FREE_TOOLS \o
  << "screenshot_ios_simulator", "list_ios_simulators", "get_ios_simulator_info",
     "get_ios_simulator_logs", "get_ui_tree", "find_element", "wait_for_element",
     "get_element_property", "assert_element", "suggest_action", "analyze_screen",
     "get_screen_text", "set_license_key" >>

\* Array.prototype.includes
ArrayIncludes(arr, x) == \E i \in 1..Len(arr) : arr[i] = x

(***************************************************************************)
(* Tool access control.                                                    *)
(***************************************************************************)
canAccessTool_IgnoreTier(toolName, tier) ==
  ArrayIncludes(FREE_TOOLS, toolName) \/ ArrayIncludes(ADVANCED_TOOLS, toolName)

canAccessTool(toolName, tier) ==
  IF ArrayIncludes(FREE_TOOLS, toolName) THEN TRUE
  ELSE IF tier = "advanced" /\ ArrayIncludes(ADVANCED_TOOLS, toolName) THEN TRUE
  ELSE FALSE

\* TIER_LIMITS[tier]?.field || dflt : a missing tier or a falsy value gives dflt
LimitOr(tier, field, dflt) ==
  IF tier \in DOMAIN TIER_LIMITS /\ TIER_LIMITS[tier][field] # 0
  THEN TIER_LIMITS[tier][field]
  ELSE dflt

getMaxLogLines_DefaultAdvanced(tier) == LimitOr(tier, "maxLogLines", AdvancedMaxLogLines)

getMaxLogLines(tier) == LimitOr(tier, "maxLogLines", 50)

getMaxDevices(tier) == LimitOr(tier, "maxDevices", 1)

(***************************************************************************)
(* license.ts: machine identity and cache signing.                         *)
(***************************************************************************)
CACHE_TTL_MS == 60 * 60 * 1000

\* length of a hex-encoded SHA-256 digest
HexDigestLen == 64

ThisMachine == "machine-A"
OtherMachine == "machine-B"

getMachineId == ThisMachine

getCacheSecret(machineId) == <<"mobiledev-", machineId, "-cache-v1">>

\* HMAC-SHA256 under `secret` of JSON.stringify(data), hex encoded.  The keyed
\* hash is idealised as collision free: the digest determines (secret, payload).
Hmac(secret, data) == [len |-> HexDigestLen, mac |-> <<secret, Stringify(data)>>]

signCacheData(data) == Hmac(getCacheSecret(getMachineId), data)

verifyCacheSignature(data, signature) ==
  LET expected == signCacheData(data)
  IN IF signature.len # expected.len THEN FALSE
     ELSE signature.mac = expected.mac

(***************************************************************************)
(* The cache file.  form: "absent" (no file), "garbage" (text JSON.parse   *)
(* rejects), "null" (the JSON text null) or "envelope" (a JSON object).    *)
(* An envelope has an optional data object and a signature member that is  *)
(* missing/falsy ("missing"), a non-empty string ("string") or a truthy    *)
(* value that is no string, such as a number ("other").                    *)
(***************************************************************************)
NoSig == [len |-> 0, mac |-> << <<"", "", "">>, <<>> >>]

Absent ==
  [form |-> "absent", hasData |-> FALSE, data |-> <<>>, sigKind |-> "missing", sig |-> NoSig]

Garbage == [Absent EXCEPT !.form = "garbage"]

JsonNull == [Absent EXCEPT !.form = "null"]

Envelope(hasData, data, sigKind, sig) ==
  [form |-> "envelope", hasData |-> hasData, data |-> data, sigKind |-> sigKind, sig |-> sig]

\* what JSON.stringify({data, signature}) followed by writeFileSync leaves on disk
WrittenEnvelope(data, signature) == Envelope(TRUE, Stringify(data), "string", signature)

NoRecord == [ok |-> FALSE, data |-> <<>>]

\* loadCachedLicense: [ret |-> the record or null, file |-> the file afterwards]
loadCachedLicense(f) ==
  IF f.form = "absent" THEN [ret |-> NoRecord, file |-> f]
  ELSE IF f.form # "envelope" THEN [ret |-> NoRecord, file |-> f]  \* parse or property access throws: caught
  ELSE IF f.hasData /\ f.sigKind # "missing"
       THEN IF f.sigKind = "other" THEN [ret |-> NoRecord, file |-> f]  \* Buffer.from throws: caught
            ELSE IF verifyCacheSignature(f.data, f.sig)
                 THEN [ret |-> [ok |-> TRUE, data |-> f.data], file |-> f]
                 ELSE [ret |-> NoRecord, file |-> Absent]
       ELSE [ret |-> NoRecord, file |-> Absent]

\* saveLicenseCache: the file afterwards; a failing write is swallowed
saveLicenseCache_Unsigned(f, data, writeOk) ==
  IF writeOk THEN Envelope(TRUE, Stringify(data), "missing", NoSig) ELSE f

saveLicenseCache(f, data, writeOk) ==
  IF writeOk THEN WrittenEnvelope(data, signCacheData(data)) ELSE f

(***************************************************************************)
(* Remote validation.                                                      *)
(***************************************************************************)
\* a || b on JavaScript values
OrElse(a, b) == IF Truthy(a) THEN a ELSE b

mapProductToTier(productName) ==
  LET name == toLowerCase(productName)
  IN IF \/ includes(name, <<"a", "d", "v", "a", "n", "c", "e", "d">>)
        \/ includes(name, <<"p", "r", "o">>)
        \/ includes(name, <<"b", "a", "s", "i", "c">>)
     THEN "advanced"
     ELSE "free"

\* The HTTP exchange as the callbacks it delivers.
\*   "error"    req 'error'                       -> resolve(null)
\*   "timeout"  the 5000 ms socket timeout        -> req.destroy(); resolve(null)
\*   "end"      res 'end' with `body` collected, body within MAX_RESPONSE_SIZE
\*   "oversize" a res 'data' that makes data.length > MAX_RESPONSE_SIZE
\*              -> req.destroy(); resolve(null).  The 'end' listener stays
\*              registered and nothing in it looks at whether the promise is
\*              settled: lateEnd says whether the runtime still delivers 'end'
\*              (it does when the message completed with that same chunk).
\*   "throw"    the promise executor throws, the promise rejects
\* body: parses is whether JSON.parse accepts it as an object; valid,
\* product_name (meta?.product_name) and expires_at (license_key?.expires_at)
\* are the values the handler reads from it.
Body(parses, valid, product, expires) ==
  [parses |-> parses, valid |-> valid, product_name |-> product, expires_at |-> expires]

NoBody == Body(FALSE, JUndef, JUndef, JUndef)

ValidValues == {JUndef, JBool(FALSE), JBool(TRUE), JStr("false")}

ProductNames ==
  {JUndef, JChars(<<"D", "e", "v", " ", "P", "R", "O">>), JChars(<<"T", "e", "a", "m">>)}

ExpiryValues == {JUndef, JStr("2027-01-14T12:00:00Z")}

Bodies ==
  {NoBody} \cup
  {Body(TRUE, v, pn, ex) : v \in ValidValues, pn \in ProductNames, ex \in ExpiryValues}

Response(kind, lateEnd, body) == [kind |-> kind, lateEnd |-> lateEnd, body |-> body]

Responses ==
  {Response(k, FALSE, NoBody) : k \in {"error", "timeout", "throw"}} \cup
  {Response("end", FALSE, b) : b \in Bodies} \cup
  {Response("oversize", FALSE, NoBody)} \cup
  {Response("oversize", TRUE, b) : b \in Bodies}

\* the record built from an accepted response (lines 228-241)
RecordOf(licenseKey, body, t) ==
  << [k |-> "tier", v |-> JStr(mapProductToTier(OrElse(body.product_name, JChars(<<>>)).c))],
     [k |-> "licenseKey", v |-> licenseKey],
     [k |-> "expiresAt", v |-> body.expires_at],
     [k |-> "lastValidated", v |-> JNum(t)] >>

\* `if (response.valid)`: any truthy value of the valid field
Accepts(body) == body.parses /\ Truthy(body.valid)

Info(status, tier, expiresAt) == [status |-> status, tier |-> tier, expiresAt |-> expiresAt]

NullInfo == Info("null", "free", JUndef)

\* the res 'end' listener: [info |-> what it passes to resolve, file |-> the file afterwards]
OnEnd(f, licenseKey, body, t, writeOk) ==
  IF Accepts(body)
  THEN LET rec == RecordOf(licenseKey, body, t)
       IN [info |-> Info("ok", Get(rec, "tier").s, body.expires_at),
           file |-> saveLicenseCache(f, rec, writeOk)]
  ELSE [info |-> NullInfo, file |-> f]

\* validateWithLemonSqueezy: [info |-> the value the promise settles with
\* (status "ok", "null", or "throw" for a rejection), file |-> the file afterwards].
\* Only the first resolve() settles the promise.
validateWithLemonSqueezy(f, licenseKey, resp, t, writeOk) ==
  CASE resp.kind = "end" -> OnEnd(f, licenseKey, resp.body, t, writeOk)
    [] resp.kind = "oversize" ->
         [info |-> NullInfo,
          file |-> IF resp.lateEnd THEN OnEnd(f, licenseKey, resp.body, t, writeOk).file ELSE f]
    [] resp.kind = "throw" -> [info |-> Info("throw", "free", JUndef), file |-> f]
    [] OTHER -> [info |-> NullInfo, file |-> f]

(***************************************************************************)
(* checkLicense, in the two pieces its await splits it into.               *)
(***************************************************************************)
Step(next, tier, expiresAt, via, key, f) ==
  [next |-> next, tier |-> tier, expiresAt |-> expiresAt, via |-> via, key |-> key, file |-> f]

\* lines 157-175: up to the return of a fresh tier or the await of re-validation
checkLicense_Start_FreshInclusive(f, t) ==
  LET ld == loadCachedLicense(f)
      cached == ld.ret
  IN IF cached.ok /\ Truthy(Get(cached.data, "licenseKey"))
     THEN IF t - OrElse(Get(cached.data, "lastValidated"), JNum(0)).n <= CACHE_TTL_MS
          THEN Step("return", Get(cached.data, "tier").s, Get(cached.data, "expiresAt"),
                       "fresh", JUndef, ld.file)
          ELSE Step("await", "", JUndef, "stale", Get(cached.data, "licenseKey"), ld.file)
     ELSE Step("return", "free", JUndef, "nocache", JUndef, ld.file)

\* checkLicense that never re-validates: a stale record is used as it is
checkLicense_Start_UseStale(f, t) ==
  LET ld == loadCachedLicense(f)
      cached == ld.ret
  IN IF cached.ok /\ Truthy(Get(cached.data, "licenseKey"))
     THEN Step("return", Get(cached.data, "tier").s, Get(cached.data, "expiresAt"),
               "fresh", JUndef, ld.file)
     ELSE Step("return", "free", JUndef, "nocache", JUndef, ld.file)

checkLicense_Start(f, t) ==
  LET ld == loadCachedLicense(f)
      cached == ld.ret
  IN IF cached.ok /\ Truthy(Get(cached.data, "licenseKey"))
     THEN LET lastCheck == OrElse(Get(cached.data, "lastValidated"), JNum(0)).n
          IN IF t - lastCheck < CACHE_TTL_MS
             THEN Step("return", Get(cached.data, "tier").s, Get(cached.data, "expiresAt"),
                       "fresh", JUndef, ld.file)
             ELSE Step("await", "", JUndef, "stale", Get(cached.data, "licenseKey"), ld.file)
     ELSE Step("return", "free", JUndef, "nocache", JUndef, ld.file)

\* lines 176-191: after the await; v is what validateWithLemonSqueezy gave
checkLicense_Resume_KeepCache(v) ==
  CASE v.info.status = "ok" -> Step("return", v.info.tier, v.info.expiresAt, "revalidated", JUndef, v.file)
    [] v.info.status = "throw" -> Step("return", "free", JUndef, "exception", JUndef, v.file)
    [] OTHER -> Step("return", "free", JUndef, "reval_failed", JUndef, v.file)

checkLicense_Resume_FailOpen(v) ==
  CASE v.info.status = "ok" -> Step("return", v.info.tier, v.info.expiresAt, "revalidated", JUndef, v.file)
    [] OTHER -> Step("return", "advanced", JUndef, "reval_failed", JUndef, Absent)

checkLicense_Resume(v) ==
  CASE v.info.status = "ok" -> Step("return", v.info.tier, v.info.expiresAt, "revalidated", JUndef, v.file)
    [] v.info.status = "throw" -> Step("return", "free", JUndef, "exception", JUndef, v.file)
    [] OTHER -> Step("return", "free", JUndef, "reval_failed", JUndef, Absent)  \* unlinkSync

(***************************************************************************)
(* setLicenseKey and handleTool.                                           *)
(***************************************************************************)
MinKeyLen == 10
MaxKeyLen == 100

\* lines 341-351: the format checks, up to the await of the validation
setLicenseKey_Start(licenseKey) ==
  IF ~Truthy(licenseKey) \/ trim(licenseKey.c) = <<>>
  THEN [out |-> "key_required", key |-> JUndef]
  ELSE LET key == trim(licenseKey.c)
       IN IF Len(key) < MinKeyLen \/ Len(key) > MaxKeyLen
          THEN [out |-> "key_format", key |-> JUndef]
          ELSE [out |-> "await", key |-> JChars(key)]

\* lines 353-365: after the await
setLicenseKey_Resume(v) ==
  IF v.info.status = "ok"
  THEN [out |-> "activated", tier |-> v.info.tier, expiresAt |-> v.info.expiresAt]
  ELSE [out |-> "key_invalid", tier |-> "", expiresAt |-> JUndef]

\* utils.ts validateDeviceId: non-empty, at most MaxDeviceIdLen characters, all
\* of them letters, digits, '-', '.' or ':'
MaxDeviceIdLen == 64

Letters ==
  {"a", "b", "c", "d", "e", "f", "g", "h", "i", "j", "k", "l", "m", "n", "o", "p", "q",
   "r", "s", "t", "u", "v", "w", "x", "y", "z",
   "A", "B", "C", "D", "E", "F", "G", "H", "I", "J", "K", "L", "M", "N", "O", "P", "Q",
   "R", "S", "T", "U", "V", "W", "X", "Y", "Z"}

Digits == {"0", "1", "2", "3", "4", "5", "6", "7", "8", "9"}

validateDeviceId(deviceId) ==
  IF deviceId = <<>> \/ Len(deviceId) > MaxDeviceIdLen THEN FALSE
  ELSE \A i \in 1..Len(deviceId) : deviceId[i] \in Letters \cup Digits \cup {"-", ".", ":"}

\* what handleTool has done when it returns or reaches setLicenseKey's await:
\* out the result text ("await" at the await), key the key under validation,
\* cmds the device commands issued, checked whether an argument was validated
Handled(out, key, cmds, checked) == [out |-> out, key |-> key, cmds |-> cmds, checked |-> checked]

\* index.ts: the catalogue `tools`, by name, in its order
tools ==
  << "screenshot_emulator", "screenshot_ios_simulator", "list_devices", "list_ios_simulators",
     "get_device_info", "get_ios_simulator_info", "get_app_info", "get_metro_logs",
     "get_adb_logs", "get_ios_simulator_logs", "check_metro_status", "get_license_status",
     "get_ui_tree", "find_element", "wait_for_element", "get_element_property",
     "assert_element", "suggest_action", "analyze_screen", "get_screen_text",
     "set_license_key" >>

\* the switch of handleTool without the case "list_devices"
SwitchCases_NoListDevices ==
  << "screenshot_emulator", "screenshot_ios_simulator", "list_ios_simulators",
     "get_device_info", "get_ios_simulator_info", "get_app_info", "get_metro_logs",
     "get_adb_logs", "get_ios_simulator_logs", "check_metro_status", "get_ui_tree",
     "find_element", "wait_for_element", "get_element_property", "assert_element",
     "suggest_action", "analyze_screen", "get_screen_text", "get_license_status",
     "set_license_key" >>

\* the case labels of the switch of handleTool, in their order; any other
\* name takes the default branch
SwitchCases ==
  << "screenshot_emulator", "screenshot_ios_simulator", "list_devices", "list_ios_simulators",
     "get_device_info", "get_ios_simulator_info", "get_app_info", "get_metro_logs",
     "get_adb_logs", "get_ios_simulator_logs", "check_metro_status", "get_ui_tree",
     "find_element", "wait_for_element", "get_element_property", "assert_element",
     "suggest_action", "analyze_screen", "get_screen_text", "get_license_status",
     "set_license_key" >>

\* the ListTools handler without the filter
ListToolsResult_Unfiltered(tier) == tools

\* the ListTools handler: tools.filter((tool) => canAccessTool(tool.name, license.tier))
ListToolsResult(tier) == SelectSeq(tools, LAMBDA t : canAccessTool(t, tier))

\* handleTool with the device check ahead of the access check
handleTool_Start_DeviceFirst(name, args, tier) ==
  LET device == Get(args, "device")
  IN IF Truthy(device) /\ ~validateDeviceId(device.c)
     THEN Handled("invalid_device", JUndef, 0, TRUE)
     ELSE IF ~canAccessTool(name, tier) THEN Handled("denied", JUndef, 0, Truthy(device))
     ELSE IF name = "set_license_key"
          THEN LET s == setLicenseKey_Start(Get(args, "licenseKey"))
               IN Handled(s.out, s.key, 0, TRUE)
          ELSE IF ArrayIncludes(SwitchCases, name)
               THEN Handled("tool_ran", JUndef, 1, Truthy(device))
               ELSE Handled("unknown_tool", JUndef, 0, Truthy(device))

\* handleTool (lines 390-417): the access check, the device-id check, then the
\* tool's branch.  A tool other than set_license_key runs its device command.
handleTool_Start(name, args, tier) ==
  IF ~canAccessTool(name, tier) THEN Handled("denied", JUndef, 0, FALSE)
  ELSE LET device == Get(args, "device")
       IN IF Truthy(device) /\ ~validateDeviceId(device.c)
          THEN Handled("invalid_device", JUndef, 0, TRUE)
          ELSE IF name = "set_license_key"
               THEN LET s == setLicenseKey_Start(Get(args, "licenseKey"))
                    IN Handled(s.out, s.key, 0, TRUE)
               ELSE IF ArrayIncludes(SwitchCases, name)
                    THEN Handled("tool_ran", JUndef, 1, Truthy(device))
                    ELSE Handled("unknown_tool", JUndef, 0, Truthy(device))

(***************************************************************************)
(* State.                                                                  *)
(***************************************************************************)
VARIABLES
  file,   \* the content of ~/.mobile-dev-mcp/license.json
  now,    \* Date.now()
  procs,  \* the request handlers in flight
  policy, \* the last call of the access policy and its result
  peer,   \* a saveLicenseCache in progress and what another server process loaded
  ui,     \* the last call of the UI-tree functions or of a dump-consuming tool
  wait,   \* the call of a dump-consuming tool in progress
  machine, \* the platform's identity sources and the module variable cachedMachineId
  result  \* the last result a handler shaped from what the device returned

vars == <<file, now, procs, policy, peer, ui, wait, machine, result>>

\* a handler: pc is where it stands,
\*   "idle"          no request
\*   "revalidating"  in checkLicense, awaiting validateWithLemonSqueezy (line 175)
\*   "resolved"      checkLicense returned; the handler awaits it (line 1134 / 1120)
\*   "activating"    in setLicenseKey, awaiting validateWithLemonSqueezy (line 351)
\*   "done"          the response is sent
\* name/args the request, key the license key of the validation in flight,
\* tier/expiresAt/via the license checkLicense resolved and the path that
\* resolved it, out the response, got the tier a set_license_key response
\* reports with expiresAt;
\* net/wrote record the HTTP exchange its last validation saw (NetOf) and
\* whether the file system let the cache be written; cmds/checked record the
\* device commands handleTool issued and whether it validated an argument;
\* listed the tools a tools/list response offers.
Idle ==
  [pc |-> "idle", name |-> "", args |-> <<>>, key |-> JUndef,
   tier |-> "", expiresAt |-> JUndef, via |-> "", out |-> "", got |-> "",
   net |-> "", wrote |-> FALSE, cmds |-> 0, checked |-> FALSE, listed |-> <<>>]

\* the kind of an HTTP exchange, and for a complete response what its body
\* says: unparseable, or the value of its valid field
NetOf(resp) ==
  IF resp.kind # "end" THEN resp.kind
  ELSE IF ~resp.body.parses THEN "malformed"
  ELSE IF resp.body.valid = JBool(TRUE) THEN "valid_true"
  ELSE IF resp.body.valid = JBool(FALSE) THEN "valid_false"
  ELSE IF resp.body.valid = JUndef THEN "valid_absent"
  ELSE "valid_other"

StartTime == CACHE_TTL_MS

GoodKey == <<"l", "k", "_", "A", "A", "A", "A", "A", "A", "1">>
PaddedKey == <<" ">> \o <<"l", "k", "_", "B", "B", "B", "B", "B", "B", "B", "2">> \o <<" ", " ">>
ShortKey == <<"l", "k", "_", "s", "h", "o", "r", "t">>
LongKey == [i \in 1..(MaxKeyLen + 1) |-> "x"]

KeyArgs ==
  {JUndef, JChars(<<" ">>), JChars(ShortKey), JChars(GoodKey), JChars(PaddedKey), JChars(LongKey)}

ListTools == "tools/list"

GoodDevice == <<"e", "m", "u", "l", "a", "t", "o", "r", "-", "5", "5", "5", "4">>
BadDevice == <<"x", ";", "r", "m">>

\* request.params.arguments: the members the tools of the model read
Args(licenseKey, device) ==
  << [k |-> "licenseKey", v |-> licenseKey], [k |-> "device", v |-> device] >>

\* the requests: tools/list, or tools/call of a name with its arguments
Requests ==
  {<<ListTools, <<>> >>} \cup
  {<<"list_devices", Args(JUndef, JChars(GoodDevice))>>,
   <<"get_ui_tree", Args(JUndef, JChars(BadDevice))>>,
   <<"no_such_tool", Args(JUndef, JUndef)>>} \cup
  {<<"set_license_key", Args(a, JUndef)>> : a \in KeyArgs}

StoredRecord(tier, key, expires, lastValidated) ==
  << [k |-> "tier", v |-> JStr(tier)],
     [k |-> "licenseKey", v |-> JChars(key)],
     [k |-> "expiresAt", v |-> expires],
     [k |-> "lastValidated", v |-> JNum(lastValidated)] >>

\* files a previous run of the program on this machine left behind
SavedFiles ==
  {WrittenEnvelope(StoredRecord(tr, GoodKey, JUndef, lv),
                   Hmac(getCacheSecret(ThisMachine), StoredRecord(tr, GoodKey, JUndef, lv))) :
     tr \in {"free", "advanced"}, lv \in {0, TickMs}}

ShortSig == [len |-> 32, mac |-> NoSig.mac]

\* what editing, truncating or replacing a saved file f can leave
TamperedFrom(f) ==
  { Garbage, JsonNull,
    [f EXCEPT !.data = Stringify(StoredRecord("advanced", GoodKey, JUndef, now))],
    [f EXCEPT !.sig = ShortSig],
    [f EXCEPT !.sig = Hmac(getCacheSecret(OtherMachine), f.data)],
    [f EXCEPT !.sigKind = "missing", !.sig = NoSig],
    [f EXCEPT !.sigKind = "other", !.sig = NoSig],
    [f EXCEPT !.hasData = FALSE, !.data = <<>>] }

\* a call of canAccessTool, getMaxLogLines or getMaxDevices: the arguments and
\* the value returned (allowed for canAccessTool, limit for the other two)
PolicyCall(op, toolName, tier, allowed, limit) ==
  [op |-> op, toolName |-> toolName, tier |-> tier, allowed |-> allowed, limit |-> limit]

NoPolicyCall == PolicyCall("", "", "", FALSE, 0)

\* no save in progress, nothing loaded by the other process
NoPeer == [pc |-> "idle", prev |-> Absent, next |-> Absent, loaded |-> FALSE, seen |-> Absent]

\* no call of the UI-tree functions
NoUi == [op |-> "", dump |-> <<>>, elements |-> <<>>, criteria |-> <<>>, out |-> <<>>]

\* getMachineId not yet called
NoMachine ==
  [platform |-> "", source |-> [kind |-> "", text |-> <<>>], hostname |-> <<>>,
   cachedMachineId |-> JNull, returns |-> <<>>, consulted |-> 0]

\* no result shaped
NoResult == [op |-> ""]

\* no call of a dump-consuming tool
NoWait ==
  [pc |-> "idle", tool |-> "", requested |-> JUndef, timeout |-> 0,
   startTime |-> 0, criteria |-> <<>>, out |-> "", error |-> "",
   waitTime |-> 0, found |-> [ok |-> FALSE, el |-> <<>>], used |-> 0, sawOversize |-> FALSE,
   attempted |-> FALSE, matched |-> FALSE]

Init ==
  /\ now = StartTime
  /\ file \in {Absent} \cup SavedFiles
  /\ procs = [p \in Handlers |-> Idle]
  /\ policy = NoPolicyCall
  /\ peer = NoPeer
  /\ ui = NoUi
  /\ wait = NoWait
  /\ machine = NoMachine
  /\ result = NoResult

(***************************************************************************)
(* Actions.  JavaScript runs each callback to completion, so a handler is  *)
(* atomic between two awaits of I/O.                                       *)
(***************************************************************************)
\* A request arrives: the handler calls checkLicense, which runs to its
\* return or to the await of the re-validation.
Request(p, name, args) ==
  /\ procs[p].pc = "idle"
  /\ LET st == checkLicense_Start(file, now)
     IN /\ file' = st.file
        /\ procs' = [procs EXCEPT ![p] =
             [pc |-> IF st.next = "await" THEN "revalidating" ELSE "resolved",
              name |-> name, args |-> args, key |-> st.key,
              tier |-> st.tier, expiresAt |-> st.expiresAt, via |-> st.via,
              out |-> "", got |-> "", net |-> "", wrote |-> FALSE,
              cmds |-> 0, checked |-> FALSE, listed |-> <<>>]]
  /\ UNCHANGED <<now, policy, peer, ui, wait, machine, result>>

\* The re-validation's HTTP exchange ends and checkLicense resumes.
Revalidated(p, resp, writeOk) ==
  /\ procs[p].pc = "revalidating"
  /\ LET v == validateWithLemonSqueezy(file, procs[p].key, resp, now, writeOk)
         st == checkLicense_Resume(v)
     IN /\ file' = st.file
        /\ procs' = [procs EXCEPT ![p].pc = "resolved", ![p].key = JUndef,
                                  ![p].tier = st.tier, ![p].expiresAt = st.expiresAt,
                                  ![p].via = st.via,
                                  ![p].net = NetOf(resp), ![p].wrote = writeOk]
  /\ UNCHANGED <<now, policy, peer, ui, wait, machine, result>>

\* The handler resumes with the resolved tier: tools/list filters the
\* catalogue, tools/call runs handleTool to its return or to setLicenseKey's await.
Handle(p) ==
  /\ procs[p].pc = "resolved"
  /\ IF procs[p].name = ListTools
     THEN procs' = [procs EXCEPT ![p].pc = "done", ![p].out = "listed",
                                 ![p].listed = ListToolsResult(procs[p].tier),
                                 ![p].expiresAt = JUndef, ![p].net = "", ![p].wrote = FALSE]
     ELSE LET h == handleTool_Start(procs[p].name, procs[p].args, procs[p].tier)
          IN procs' = [procs EXCEPT ![p].pc = IF h.out = "await" THEN "activating" ELSE "done",
                                    ![p].key = h.key, ![p].expiresAt = JUndef,
                                    ![p].net = "", ![p].wrote = FALSE,
                                    ![p].cmds = h.cmds, ![p].checked = h.checked,
                                    ![p].out = IF h.out = "await" THEN "" ELSE h.out]
  /\ UNCHANGED <<file, now, policy, peer, ui, wait, machine, result>>

\* setLicenseKey's HTTP exchange ends and setLicenseKey resumes; a rejected
\* promise is caught by handleTool ("Failed to set license key").
Activated(p, resp, writeOk) ==
  /\ procs[p].pc = "activating"
  /\ LET v == validateWithLemonSqueezy(file, procs[p].key, resp, now, writeOk)
         r == setLicenseKey_Resume(v)
     IN /\ file' = v.file
        /\ procs' = [procs EXCEPT ![p].pc = "done", ![p].key = JUndef,
                                  ![p].net = NetOf(resp), ![p].wrote = writeOk,
                                  ![p].out = IF v.info.status = "throw" THEN "set_key_threw"
                                             ELSE r.out,
                                  ![p].got = r.tier, ![p].expiresAt = r.expiresAt]
  /\ UNCHANGED <<now, policy, peer, ui, wait, machine, result>>

\* The response is delivered; the slot takes the next request.
Finish(p) ==
  /\ procs[p].pc = "done"
  /\ procs' = [procs EXCEPT ![p] = Idle]
  /\ UNCHANGED <<file, now, policy, peer, ui, wait, machine, result>>

\* Time passes.
Tick ==
  /\ now < StartTime + MaxTicks * TickMs
  /\ now' = now + TickMs
  /\ UNCHANGED <<file, procs, policy, peer, ui, wait, machine, result>>

\* Somebody edits, truncates or replaces the cache file the program saved.
Tamper(f) ==
  /\ file.form = "envelope"
  /\ loadCachedLicense(file).ret.ok
  /\ f \in TamperedFrom(file)
  /\ file' = f
  /\ UNCHANGED <<now, procs, policy, peer, ui, wait, machine, result>>

Next ==
  \/ \E p \in DOMAIN procs, r \in Requests : Request(p, r[1], r[2])
  \/ \E p \in DOMAIN procs, resp \in Responses, writeOk \in BOOLEAN : Revalidated(p, resp, writeOk)
  \/ \E p \in DOMAIN procs : Handle(p)
  \/ \E p \in DOMAIN procs, resp \in Responses, writeOk \in BOOLEAN : Activated(p, resp, writeOk)
  \/ \E p \in DOMAIN procs : Finish(p)
  \/ Tick
  \/ \E f \in TamperedFrom(file) : Tamper(f)

Spec == Init /\ [][Next]_vars

(***************************************************************************)
(* Two requests in flight.  The CallTool handler is an async function and  *)
(* the server starts it for every request it reads: a second request runs  *)
(* while the first one awaits its validation.                              *)
(***************************************************************************)
Racers == {"h1", "h2"}

RaceRequests ==
  {<<"list_devices", Args(JUndef, JUndef)>>,
   <<"set_license_key", Args(JChars(PaddedKey), JUndef)>>}

RaceResponses ==
  {Response("error", FALSE, NoBody),
   Response("end", FALSE, Body(TRUE, JBool(TRUE), JChars(<<"D", "e", "v", " ", "P", "R", "O">>), JUndef))}

InitRace ==
  /\ now = StartTime
  /\ file \in SavedFiles
  /\ procs = [p \in Racers |-> Idle]
  /\ policy = NoPolicyCall
  /\ peer = NoPeer
  /\ ui = NoUi
  /\ wait = NoWait
  /\ machine = NoMachine
  /\ result = NoResult

NextRace ==
  \/ \E p \in DOMAIN procs, r \in RaceRequests : Request(p, r[1], r[2])
  \/ \E p \in DOMAIN procs, resp \in RaceResponses : Revalidated(p, resp, TRUE)
  \/ \E p \in DOMAIN procs : Handle(p)
  \/ \E p \in DOMAIN procs, resp \in RaceResponses : Activated(p, resp, TRUE)
  \/ \E p \in DOMAIN procs : Finish(p)
  \/ Tick

SpecRace == InitRace /\ [][NextRace]_vars

(***************************************************************************)
(* The access policy on its own: canAccessTool, getMaxLogLines and         *)
(* getMaxDevices are pure, so they are applied to every tool name and tier *)
(* value of interest, the ones the type MobileDevTier excludes included.   *)
(***************************************************************************)
ToolNames ==
  {ADVANCED_TOOLS[i] : i \in 1..Len(ADVANCED_TOOLS)} \cup
  {"", "unknown_tool", "tap_element", "SCREENSHOT_EMULATOR", "list_devices "}

TierValues == {"free", "advanced", "bogus-tier", "unknown", "FREE", "pro", ""}

InitPolicy ==
  /\ now = StartTime
  /\ file = Absent
  /\ procs = [p \in Handlers |-> Idle]
  /\ policy = NoPolicyCall
  /\ peer = NoPeer
  /\ ui = NoUi
  /\ wait = NoWait
  /\ machine = NoMachine
  /\ result = NoResult

CallCanAccessTool(toolName, tier) ==
  /\ policy' = PolicyCall("canAccessTool", toolName, tier, canAccessTool(toolName, tier), 0)
  /\ UNCHANGED <<file, now, procs, peer, ui, wait, machine, result>>

CallGetMaxLogLines(tier) ==
  /\ policy' = PolicyCall("getMaxLogLines", "", tier, FALSE, getMaxLogLines(tier))
  /\ UNCHANGED <<file, now, procs, peer, ui, wait, machine, result>>

CallGetMaxDevices(tier) ==
  /\ policy' = PolicyCall("getMaxDevices", "", tier, FALSE, getMaxDevices(tier))
  /\ UNCHANGED <<file, now, procs, peer, ui, wait, machine, result>>

NextPolicy ==
  \/ \E toolName \in ToolNames, tier \in TierValues : CallCanAccessTool(toolName, tier)
  \/ \E tier \in TierValues : CallGetMaxLogLines(tier)
  \/ \E tier \in TierValues : CallGetMaxDevices(tier)

SpecPolicy == InitPolicy /\ [][NextPolicy]_vars

(***************************************************************************)
(* saveLicenseCache as the file system sees it.  fs.writeFileSync opens    *)
(* the cache file itself for writing, which truncates it, then writes the  *)
(* text, possibly in several writes.  Another server process of the same   *)
(* user (one is started per client) shares the file and may run            *)
(* loadCachedLicense between any two of these steps.                       *)
(***************************************************************************)
\* the file once it is opened for writing: empty, JSON.parse("") throws
Truncated == Garbage

\* the file with only a first part of the text written: it does not parse
PartialOf(f) == [f EXCEPT !.form = "garbage", !.sigKind = "missing", !.sig = NoSig]

\* the records a validation saves at time t (lines 228-240)
SavedRecords(t) == {RecordOf(JChars(GoodKey), b, t) : b \in {x \in Bodies : Accepts(x)}}

InitSave ==
  /\ now = StartTime
  /\ file \in {Absent} \cup SavedFiles
  /\ procs = [p \in Handlers |-> Idle]
  /\ policy = NoPolicyCall
  /\ peer = NoPeer
  /\ ui = NoUi
  /\ wait = NoWait
  /\ machine = NoMachine
  /\ result = NoResult

\* writeFileSync opens the file: O_WRONLY | O_CREAT | O_TRUNC
SaveOpen(data) ==
  /\ peer.pc = "idle"
  /\ peer' = [pc |-> "opened", prev |-> file, next |-> saveLicenseCache(file, data, TRUE),
              loaded |-> FALSE, seen |-> Absent]
  /\ file' = Truncated
  /\ UNCHANGED <<now, procs, policy, ui, wait, machine, result>>

\* a first write(2) takes only part of the text
SaveWritePart ==
  /\ peer.pc = "opened"
  /\ peer' = [peer EXCEPT !.pc = "partial"]
  /\ file' = PartialOf(peer.next)
  /\ UNCHANGED <<now, procs, policy, ui, wait, machine, result>>

\* the last write(2) completes the text, and the file is closed
SaveWriteRest ==
  /\ peer.pc \in {"opened", "partial"}
  /\ peer' = [peer EXCEPT !.pc = "idle"]
  /\ file' = peer.next
  /\ UNCHANGED <<now, procs, policy, ui, wait, machine, result>>

\* the other process runs loadCachedLicense; seen is the content it read
PeerLoad ==
  /\ peer' = [peer EXCEPT !.loaded = peer.pc # "idle", !.seen = file]
  /\ file' = loadCachedLicense(file).file
  /\ UNCHANGED <<now, procs, policy, ui, wait, machine, result>>

NextSave ==
  \/ \E data \in SavedRecords(now) : SaveOpen(data)
  \/ SaveWritePart
  \/ SaveWriteRest
  \/ PeerLoad
  \/ Tick

SpecSave == InitSave /\ [][NextSave]_vars

(***************************************************************************)
(* utils.ts: the UI tree.  A dump is the text `uiautomator dump` prints.   *)
(* It is held as a sequence of runs [text, times], the text repeated times *)
(* times, so that dumps near the ceilings MAX_XML_SIZE and MAX_ELEMENTS    *)
(* can be written down; every '<' of a run's text is closed by a '>' in    *)
(* that same text, so no match of the node pattern crosses two runs.       *)
(***************************************************************************)
MAX_XML_SIZE == 10 * 1024 * 1024
MAX_ELEMENTS == 50000

Run(text, times) == [text |-> text, times |-> times]

\* xmlDump.length
RECURSIVE DumpLength(_)
DumpLength(dump) ==
  IF dump = <<>> THEN 0
  ELSE Len(Head(dump).text) * Head(dump).times + DumpLength(Tail(dump))

\* the first index >= i at which ch stands in s, Len(s) + 1 when there is none
IndexOf(s, ch, i) ==
  IF \E j \in i..Len(s) : s[j] = ch
  THEN CHOOSE j \in i..Len(s) : s[j] = ch /\ \A k \in i..(j - 1) : s[k] # ch
  ELSE Len(s) + 1

\* whether pat stands in s at index i
StartsAt(s, pat, i) ==
  i >= 1 /\ i + Len(pat) - 1 <= Len(s) /\ SubSeq(s, i, i + Len(pat) - 1) = pat
\* the literal start of /<node[^>]+>/g
NodeOpen ==
  <<"<", "n", "o", "d", "e">>

\* /<node[^>]+>/ at index i of s: the index of the closing '>', 0 for no match
NodeMatchEnd(s, i) ==
  IF StartsAt(s, NodeOpen, i) /\ i + 5 <= Len(s) /\ s[i + 5] # ">" /\ IndexOf(s, ">", i + 6) <= Len(s)
  THEN IndexOf(s, ">", i + 6)
  ELSE 0

\* nodeRegex.exec in a loop: the matches in s from index i on, left to right,
\* each search resuming after the previous match
RECURSIVE NodeMatches(_, _)
NodeMatches(s, i) ==
  IF i > Len(s) THEN <<>>
  ELSE IF NodeMatchEnd(s, i) # 0
       THEN <<SubSeq(s, i, NodeMatchEnd(s, i))>> \o NodeMatches(s, NodeMatchEnd(s, i) + 1)
       ELSE NodeMatches(s, i + 1)

\* node.match(/name="([^"]*)"/): the first place name=" stands with a closing
\* quote after it; the captured value, "" when there is no match (getText)
getText(node, attr) ==
  LET pat == attr \o <<"=", "\"">>
      hits == {i \in 1..Len(node) : StartsAt(node, pat, i) /\ IndexOf(node, "\"", i + Len(pat)) <= Len(node)}
  IN IF hits = {} THEN <<>>
     ELSE LET i == CHOOSE h \in hits : \A g \in hits : h <= g
              from == i + Len(pat)
          IN SubSeq(node, from, IndexOf(node, "\"", from) - 1)

getBool(node, attr) == getText(node, attr) = <<"t", "r", "u", "e">>

\* the end of the run of digits that starts at index i of s (i when there is none)
DigitsEnd(s, i) ==
  CHOOSE j \in i..(Len(s) + 1) :
    /\ \A k \in i..(j - 1) : s[k] \in Digits
    /\ j = Len(s) + 1 \/ s[j] \notin Digits

DigitValue(ch) ==
  CASE ch = "0" -> 0 [] ch = "1" -> 1 [] ch = "2" -> 2 [] ch = "3" -> 3 [] ch = "4" -> 4
    [] ch = "5" -> 5 [] ch = "6" -> 6 [] ch = "7" -> 7 [] ch = "8" -> 8 [] ch = "9" -> 9

\* Number() of a string of digits
RECURSIVE ToNumber(_)
ToNumber(digits) ==
  IF digits = <<>> THEN 0
  ELSE 10 * ToNumber(SubSeq(digits, 1, Len(digits) - 1)) + DigitValue(digits[Len(digits)])

NoBounds == [ok |-> FALSE, x1 |-> 0, y1 |-> 0, x2 |-> 0, y2 |-> 0]

\* /\[(\d+),(\d+)\]\[(\d+),(\d+)\]/ at index i of s
BoundsMatchAt(s, i) ==
  LET a == i + 1                 b == DigitsEnd(s, a)
      c == b + 1                 d == DigitsEnd(s, c)
      e == d + 2                 f == DigitsEnd(s, e)
      g == f + 1                 h == DigitsEnd(s, g)
  IN IF /\ StartsAt(s, <<"[">>, i) /\ b > a /\ StartsAt(s, <<",">>, b)
        /\ d > c /\ StartsAt(s, <<"]", "[">>, d)
        /\ f > e /\ StartsAt(s, <<",">>, f)
        /\ h > g /\ StartsAt(s, <<"]">>, h)
     THEN [ok |-> TRUE,
           x1 |-> ToNumber(SubSeq(s, a, b - 1)), y1 |-> ToNumber(SubSeq(s, c, d - 1)),
           x2 |-> ToNumber(SubSeq(s, e, f - 1)), y2 |-> ToNumber(SubSeq(s, g, h - 1))]
     ELSE NoBounds

\* element.bounds.match(...): the leftmost match anywhere in the string
BoundsMatch(s) ==
  IF \E i \in 1..Len(s) : BoundsMatchAt(s, i).ok
  THEN BoundsMatchAt(s, CHOOSE i \in 1..Len(s) :
                          BoundsMatchAt(s, i).ok /\ \A j \in 1..(i - 1) : ~BoundsMatchAt(s, j).ok)
  ELSE NoBounds
AttrText == <<"t", "e", "x", "t">>
AttrResourceId == <<"r", "e", "s", "o", "u", "r", "c", "e", "-", "i", "d">>
AttrClass == <<"c", "l", "a", "s", "s">>
AttrContentDesc == <<"c", "o", "n", "t", "e", "n", "t", "-", "d", "e", "s", "c">>
AttrBounds == <<"b", "o", "u", "n", "d", "s">>
AttrClickable == <<"c", "l", "i", "c", "k", "a", "b", "l", "e">>
AttrEnabled == <<"e", "n", "a", "b", "l", "e", "d">>
AttrFocused == <<"f", "o", "c", "u", "s", "e", "d">>
AttrSelected == <<"s", "e", "l", "e", "c", "t", "e", "d">>
AttrChecked == <<"c", "h", "e", "c", "k", "e", "d">>
AttrScrollable == <<"s", "c", "r", "o", "l", "l", "a", "b", "l", "e">>

\* the UiElement built from one matched node (lines 246-275); centerX and
\* centerY exist only when hasCenter
UiElement(node) ==
  LET bounds == getText(node, AttrBounds)
      m == BoundsMatch(bounds)
  IN [text |-> getText(node, AttrText),
      resourceId |-> getText(node, AttrResourceId),
      className |-> getText(node, AttrClass),
      contentDescription |-> getText(node, AttrContentDesc),
      bounds |-> bounds,
      clickable |-> getBool(node, AttrClickable),
      enabled |-> getBool(node, AttrEnabled),
      focused |-> getBool(node, AttrFocused),
      selected |-> getBool(node, AttrSelected),
      checked |-> getBool(node, AttrChecked),
      scrollable |-> getBool(node, AttrScrollable),
      hasCenter |-> m.ok,
      centerX |-> IF m.ok THEN (m.x1 + m.x2) \div 2 ELSE 0,
      centerY |-> IF m.ok THEN (m.y1 + m.y2) \div 2 ELSE 0]

Min(a, b) == IF a <= b THEN a ELSE b

\* the while loop of parseUiTree over the runs of the dump: the elements of a
\* run's matches are pushed, times over, until MAX_ELEMENTS are held
RECURSIVE ParseRuns_NoCeiling(_, _)
ParseRuns_NoCeiling(runs, elements) ==
  IF runs = <<>> THEN elements
  ELSE LET els == [k \in 1..Len(NodeMatches(Head(runs).text, 1)) |->
                     UiElement(NodeMatches(Head(runs).text, 1)[k])]
           take == Len(els) * Head(runs).times
       IN ParseRuns_NoCeiling(Tail(runs),
            elements \o [i \in 1..take |-> els[((i - 1) % Len(els)) + 1]])

RECURSIVE ParseRuns(_, _)
ParseRuns(runs, elements) ==
  IF runs = <<>> \/ Len(elements) >= MAX_ELEMENTS THEN elements
  ELSE LET els == [k \in 1..Len(NodeMatches(Head(runs).text, 1)) |->
                     UiElement(NodeMatches(Head(runs).text, 1)[k])]
           take == Min(Len(els) * Head(runs).times, MAX_ELEMENTS - Len(elements))
       IN ParseRuns(Tail(runs),
            elements \o [i \in 1..take |-> els[((i - 1) % Len(els)) + 1]])

\* parseUiTree: [threw |-> the size check threw, elements |-> the list returned]
parseUiTree(xmlDump) ==
  IF DumpLength(xmlDump) > MAX_XML_SIZE
  THEN [threw |-> TRUE, elements |-> <<>>]
  ELSE [threw |-> FALSE, elements |-> ParseRuns(xmlDump, <<>>)]

\* criteria: an object with the optional members text, resourceId,
\* contentDescription and className
Criteria(text, resourceId, contentDescription, className) ==
  << [k |-> "text", v |-> text], [k |-> "resourceId", v |-> resourceId],
     [k |-> "contentDescription", v |-> contentDescription], [k |-> "className", v |-> className] >>

\* the test findElementInTree applies to one element
Matches_Conjunctive(el, criteria) ==
  LET text == Get(criteria, "text")
      resourceId == Get(criteria, "resourceId")
      contentDescription == Get(criteria, "contentDescription")
      className == Get(criteria, "className")
  IN /\ \E c \in {text, resourceId, contentDescription, className} : Truthy(c)
     /\ Truthy(text) => includes(toLowerCase(el.text), toLowerCase(text.c))
     /\ Truthy(resourceId) => includes(el.resourceId, resourceId.c)
     /\ Truthy(contentDescription) =>
          includes(toLowerCase(el.contentDescription), toLowerCase(contentDescription.c))
     /\ Truthy(className) => includes(el.className, className.c)

Matches(el, criteria) ==
  LET text == Get(criteria, "text")
      resourceId == Get(criteria, "resourceId")
      contentDescription == Get(criteria, "contentDescription")
      className == Get(criteria, "className")
  IN \/ Truthy(text) /\ includes(toLowerCase(el.text), toLowerCase(text.c))
     \/ Truthy(resourceId) /\ includes(el.resourceId, resourceId.c)
     \/ Truthy(contentDescription)
          /\ includes(toLowerCase(el.contentDescription), toLowerCase(contentDescription.c))
     \/ Truthy(className) /\ includes(el.className, className.c)

NoElement == [ok |-> FALSE, el |-> <<>>]

\* findElementInTree: the first element of the list that passes the test, or null
RECURSIVE findElementInTree(_, _)
findElementInTree(elements, criteria) ==
  IF elements = <<>> THEN NoElement
  ELSE IF Matches(Head(elements), criteria) THEN [ok |-> TRUE, el |-> Head(elements)]
       ELSE findElementInTree(Tail(elements), criteria)

(***************************************************************************)
(* Dumps, element lists and criteria the UI-tree functions are applied to. *)
(***************************************************************************)
\* <?xml version="1.0"?><hierarchy rotation="0">
Hierarchy ==
  <<"<", "?", "x", "m", "l", " ", "v", "e", "r", "s", "i", "o", "n", "=", "\"", "1", ".", "0",
    "\"", "?", ">", "<", "h", "i", "e", "r", "a", "r", "c", "h", "y", " ", "r", "o", "t", "a",
    "t", "i", "o", "n", "=", "\"", "0", "\"", ">">>

\* <node text="Cancel" resource-id="id/no" class="a.Button" content-desc="" clickable="true" enabled="true" bounds="[100,200][300,400]">
NodeCancel ==
  <<"<", "n", "o", "d", "e", " ", "t", "e", "x", "t", "=", "\"", "C", "a", "n", "c", "e", "l",
    "\"", " ", "r", "e", "s", "o", "u", "r", "c", "e", "-", "i", "d", "=", "\"", "i", "d", "/",
    "n", "o", "\"", " ", "c", "l", "a", "s", "s", "=", "\"", "a", ".", "B", "u", "t", "t", "o",
    "n", "\"", " ", "c", "o", "n", "t", "e", "n", "t", "-", "d", "e", "s", "c", "=", "\"",
    "\"", " ", "c", "l", "i", "c", "k", "a", "b", "l", "e", "=", "\"", "t", "r", "u", "e",
    "\"", " ", "e", "n", "a", "b", "l", "e", "d", "=", "\"", "t", "r", "u", "e", "\"", " ",
    "b", "o", "u", "n", "d", "s", "=", "\"", "[", "1", "0", "0", ",", "2", "0", "0", "]", "[",
    "3", "0", "0", ",", "4", "0", "0", "]", "\"", ">">>

\* <node text="submit" resource-id="id/OK" class="a.Button" content-desc="Send it" clickable="true" bounds="[0,0][101,51]" />
NodeSubmit ==
  <<"<", "n", "o", "d", "e", " ", "t", "e", "x", "t", "=", "\"", "s", "u", "b", "m", "i", "t",
    "\"", " ", "r", "e", "s", "o", "u", "r", "c", "e", "-", "i", "d", "=", "\"", "i", "d", "/",
    "O", "K", "\"", " ", "c", "l", "a", "s", "s", "=", "\"", "a", ".", "B", "u", "t", "t", "o",
    "n", "\"", " ", "c", "o", "n", "t", "e", "n", "t", "-", "d", "e", "s", "c", "=", "\"", "S",
    "e", "n", "d", " ", "i", "t", "\"", " ", "c", "l", "i", "c", "k", "a", "b", "l", "e", "=",
    "\"", "t", "r", "u", "e", "\"", " ", "b", "o", "u", "n", "d", "s", "=", "\"", "[", "0",
    ",", "0", "]", "[", "1", "0", "1", ",", "5", "1", "]", "\"", " ", "/", ">">>

\* <node text="" class="a.View" clickable="false" bounds="[bad]">
NodeBadBounds ==
  <<"<", "n", "o", "d", "e", " ", "t", "e", "x", "t", "=", "\"", "\"", " ", "c", "l", "a", "s",
    "s", "=", "\"", "a", ".", "V", "i", "e", "w", "\"", " ", "c", "l", "i", "c", "k", "a", "b",
    "l", "e", "=", "\"", "f", "a", "l", "s", "e", "\"", " ", "b", "o", "u", "n", "d", "s", "=",
    "\"", "[", "b", "a", "d", "]", "\"", ">">>

\* <node text="Off" class="a.View" bounds="[-10,0][30,40]">
NodeOffScreen ==
  <<"<", "n", "o", "d", "e", " ", "t", "e", "x", "t", "=", "\"", "O", "f", "f", "\"", " ", "c",
    "l", "a", "s", "s", "=", "\"", "a", ".", "V", "i", "e", "w", "\"", " ", "b", "o", "u", "n",
    "d", "s", "=", "\"", "[", "-", "1", "0", ",", "0", "]", "[", "3", "0", ",", "4", "0", "]",
    "\"", ">">>

\* <node text="Loose" class="a.View" bounds="x[1,2][3,5]y">
NodeLooseBounds ==
  <<"<", "n", "o", "d", "e", " ", "t", "e", "x", "t", "=", "\"", "L", "o", "o", "s", "e", "\"",
    " ", "c", "l", "a", "s", "s", "=", "\"", "a", ".", "V", "i", "e", "w", "\"", " ", "b", "o",
    "u", "n", "d", "s", "=", "\"", "x", "[", "1", ",", "2", "]", "[", "3", ",", "5", "]", "y",
    "\"", ">">>

\* <node a>
NodeBare ==
  <<"<", "n", "o", "d", "e", " ", "a", ">">>

\* </node>
CloseNode ==
  <<"<", "/", "n", "o", "d", "e", ">">>

\* </hierarchy>
CloseHierarchy ==
  <<"<", "/", "h", "i", "e", "r", "a", "r", "c", "h", "y", ">">>

\*  
Blank ==
  <<" ">>

\* the fixed part of the dumps near the size ceiling
SmallDump == <<Run(Hierarchy, 1), Run(NodeCancel, 1), Run(CloseNode, 1), Run(CloseHierarchy, 1)>>

Dumps ==
  { <<>>,
    <<Run(Hierarchy, 1), Run(CloseHierarchy, 1)>>,
    SmallDump,
    <<Run(Hierarchy, 1), Run(NodeCancel, 1), Run(NodeSubmit, 1), Run(CloseNode, 1), Run(CloseHierarchy, 1)>>,
    <<Run(Hierarchy, 1), Run(NodeSubmit, 1), Run(NodeCancel, 1), Run(CloseNode, 1), Run(CloseHierarchy, 1)>>,
    <<Run(NodeBadBounds, 1), Run(NodeOffScreen, 1), Run(NodeLooseBounds, 1), Run(NodeCancel, 2)>>,
    <<Run(NodeCancel \o NodeSubmit \o CloseNode, 2)>>,
    <<Run(NodeSubmit, 1), Run(NodeBare, MAX_ELEMENTS - 1)>>,
    <<Run(NodeBare, MAX_ELEMENTS - 1), Run(NodeSubmit, 1), Run(NodeCancel, 1)>>,
    <<Run(NodeBare, MAX_ELEMENTS), Run(NodeSubmit, 1)>>,
    SmallDump \o <<Run(Blank, MAX_XML_SIZE - DumpLength(SmallDump))>>,
    SmallDump \o <<Run(Blank, MAX_XML_SIZE - DumpLength(SmallDump) + 1)>> }

\* the lists findElementInTree is given: what parseUiTree returns for the small dumps
ElementLists ==
  {parseUiTree(d).elements : d \in {x \in Dumps : DumpLength(x) <= 4 * DumpLength(SmallDump)}}
TextSubmit == <<"S", "u", "b", "m", "i", "t">>
TextNone == <<"z", "z", "z">>
IdOk == <<"i", "d", "/", "O", "K">>
IdOkLower == <<"i", "d", "/", "o", "k">>
DescSend == <<"S", "E", "N", "D">>
ClassButton == <<"B", "u", "t", "t", "o", "n">>
ClassButtonLower == <<"b", "u", "t", "t", "o", "n">>

CriteriaSet ==
  {Criteria(t, r, c, n) :
     t \in {JUndef, JChars(<<>>), JChars(TextSubmit), JChars(TextNone)},
     r \in {JUndef, JChars(IdOk), JChars(IdOkLower)},
     c \in {JUndef, JChars(DescSend)},
     n \in {JUndef, JChars(ClassButton), JChars(ClassButtonLower)}}

UiCall(op, dump, elements, criteria, out) ==
  [op |-> op, dump |-> dump, elements |-> elements, criteria |-> criteria, out |-> out]

InitUi ==
  /\ now = StartTime
  /\ file = Absent
  /\ procs = [p \in Handlers |-> Idle]
  /\ policy = NoPolicyCall
  /\ peer = NoPeer
  /\ ui = NoUi
  /\ wait = NoWait
  /\ machine = NoMachine
  /\ result = NoResult

CallParseUiTree(dump) ==
  /\ ui = NoUi
  /\ ui' = UiCall("parseUiTree", dump, <<>>, <<>>, parseUiTree(dump))
  /\ UNCHANGED <<file, now, procs, policy, peer, wait, machine, result>>

CallFindElementInTree(elements, criteria) ==
  /\ ui = NoUi
  /\ ui' = UiCall("findElementInTree", <<>>, elements, criteria, findElementInTree(elements, criteria))
  /\ UNCHANGED <<file, now, procs, policy, peer, wait, machine, result>>

\* the value is dropped when the request that made the call completes
UiReturn ==
  /\ ui # NoUi
  /\ ui' = NoUi
  /\ UNCHANGED <<file, now, procs, policy, peer, wait, machine, result>>

NextUi ==
  \/ \E dump \in Dumps : CallParseUiTree(dump)
  \/ \E elements \in ElementLists, criteria \in CriteriaSet : CallFindElementInTree(elements, criteria)
  \/ UiReturn

SpecUi == InitUi /\ [][NextUi]_vars

(***************************************************************************)
(* index.ts: the tools that consume a UI dump.  Each awaits                *)
(* `adb exec-out uiautomator dump`, parses its output and works on the     *)
(* elements; wait_for_element does so in a polling loop.  The caller's     *)
(* tier is advanced and no device argument is given, so the checks at the  *)
(* head of handleTool pass.                                                *)
(***************************************************************************)
MAX_TIMEOUT == 60000
MinTimeout == 1000
DefaultTimeout == 5000
pollInterval == 500
MAX_SEARCH_LEN == 500

Max(a, b) == IF a >= b THEN a ELSE b

\* lines 814-816 with the upper bound left out
ClampedTimeout_NoCeiling(requested) ==
  LET requestedTimeout == OrElse(requested, JNum(DefaultTimeout)).n
  IN Max(MinTimeout, requestedTimeout)

\* lines 814-816: (args.timeout || 5000), then Math.max(1000, Math.min(.., MAX_TIMEOUT))
ClampedTimeout(requested) ==
  LET requestedTimeout == OrElse(requested, JNum(DefaultTimeout)).n
  IN Max(MinTimeout, Min(requestedTimeout, MAX_TIMEOUT))

\* the guard on the search parameters of find_element and wait_for_element
SearchTooLong(criteria) ==
  \E k \in {"text", "resourceId", "contentDescription"} :
    Truthy(Get(criteria, k)) /\ Len(Get(criteria, k).c) > MAX_SEARCH_LEN

DumpTools ==
  {"get_ui_tree", "find_element", "wait_for_element", "get_element_property",
   "assert_element", "suggest_action", "analyze_screen", "get_screen_text"}

\* a tool call: pc is where it stands ("idle", "exec" awaiting execAsync,
\* "sleep" awaiting sleep(pollInterval), "done" returned); out the kind of
\* result returned, error the message of a failure, waitTime the waitTime
\* reported, found the element looked up, used the number of elements the
\* tool worked on, sawOversize whether a dump over MAX_XML_SIZE was consumed,
\* attempted whether execAsync was called, matched whether a dump was
\* acquired, parsed and searched
ToolCall(pc, tool, requested, timeout, startTime, criteria) ==
  [pc |-> pc, tool |-> tool, requested |-> requested, timeout |-> timeout,
   startTime |-> startTime, criteria |-> criteria, out |-> "", error |-> "",
   waitTime |-> 0, found |-> NoElement, used |-> 0, sawOversize |-> FALSE,
   attempted |-> pc = "exec", matched |-> FALSE]

\* what execAsync settles with: a failure of the command, or its stdout
ExecFailed == [ok |-> FALSE, stdout |-> <<>>]

ExecResults ==
  {ExecFailed} \cup
  {[ok |-> TRUE, stdout |-> d] :
     d \in {SmallDump,
            <<Run(Hierarchy, 1), Run(NodeCancel, 1), Run(NodeSubmit, 1), Run(CloseHierarchy, 1)>>,
            SmallDump \o <<Run(Blank, MAX_XML_SIZE)>>}}

\* how long execAsync or the device takes, in ms
ExecDurations == {0, 500, 4500}

RequestedTimeouts ==
  {JUndef, JNum(0), JNum(-500), JNum(500), JNum(1500), JNum(MAX_TIMEOUT), JNum(2 * MAX_TIMEOUT)}

LongText == [i \in 1..(MAX_SEARCH_LEN + 1) |-> "x"]

SearchTexts == {JChars(TextSubmit), JChars(LongText)}

\* the body of a try block: execAsync's result is parsed and searched.
\* threw: "" or the message of the error thrown
TryDump(res, criteria) ==
  IF ~res.ok THEN [threw |-> "command_failed", elements |-> <<>>, found |-> NoElement]
  ELSE LET parsed == parseUiTree(res.stdout)
       IN IF parsed.threw
          THEN [threw |-> "size_exceeded", elements |-> <<>>, found |-> NoElement]
          ELSE [threw |-> "", elements |-> parsed.elements,
                found |-> findElementInTree(parsed.elements, criteria)]

Oversize(res) == res.ok /\ DumpLength(res.stdout) > MAX_XML_SIZE

InitTools ==
  /\ now = StartTime
  /\ file = Absent
  /\ procs = [p \in Handlers |-> Idle]
  /\ policy = NoPolicyCall
  /\ peer = NoPeer
  /\ ui = NoUi
  /\ wait = NoWait
  /\ machine = NoMachine
  /\ result = NoResult

\* handleTool reaches the tool's case and runs to its first await or return
ToolStart(tool, text, requested) ==
  /\ wait.pc = "idle"
  /\ LET criteria == Criteria(text, JUndef, JUndef, JUndef)
         call == ToolCall("exec", tool, requested, 0, now, criteria)
     IN wait' =
          IF tool \in {"find_element", "wait_for_element"} /\ SearchTooLong(criteria)
          THEN [call EXCEPT !.pc = "done", !.out = "too_long", !.attempted = FALSE,
                            !.timeout = IF tool = "wait_for_element" THEN ClampedTimeout(requested) ELSE 0]
          ELSE IF tool = "wait_for_element"
               THEN [call EXCEPT !.timeout = ClampedTimeout(requested)]
               ELSE call
  /\ UNCHANGED <<file, now, procs, policy, peer, ui, machine, result>>

\* wait_for_element returning at once when the try block threw
AfterExec_FailFast(call, t, at) ==
  IF t.threw # "" THEN [call EXCEPT !.pc = "done", !.out = "failed", !.error = t.threw]
  ELSE IF call.tool = "wait_for_element" /\ ~t.found.ok THEN [call EXCEPT !.pc = "sleep"]
  ELSE [call EXCEPT !.pc = "done", !.out = IF call.tool = "wait_for_element" THEN "found" ELSE "ok",
                    !.found = t.found, !.used = Len(t.elements),
                    !.waitTime = IF call.tool = "wait_for_element" THEN at - call.startTime ELSE 0]

\* what a call awaiting execAsync becomes when the try block ended as t at
\* time at.  A single-shot tool returns its result or its failure;
\* wait_for_element returns the element if it is found and otherwise, an
\* error included, goes to sleep.
AfterExec(call, t, at) ==
  IF call.tool = "wait_for_element"
  THEN IF t.threw = "" /\ t.found.ok
       THEN [call EXCEPT !.pc = "done", !.out = "found", !.found = t.found,
                         !.used = Len(t.elements), !.waitTime = at - call.startTime]
       ELSE [call EXCEPT !.pc = "sleep"]
  ELSE IF t.threw # ""
       THEN [call EXCEPT !.pc = "done", !.out = "failed", !.error = t.threw]
       ELSE [call EXCEPT !.pc = "done", !.out = "ok", !.found = t.found,
                         !.used = Len(t.elements)]

\* execAsync settles after d ms
ExecEnds(res, d) ==
  /\ wait.pc = "exec"
  /\ now' = now + d
  /\ wait' = AfterExec([wait EXCEPT !.sawOversize = @ \/ Oversize(res),
                                    !.matched = @ \/ (res.ok /\ ~Oversize(res))],
                       TryDump(res, wait.criteria), now + d)
  /\ UNCHANGED <<file, procs, policy, peer, ui, machine, result>>

\* sleep(pollInterval) ends; the loop test either starts the next poll or
\* ends the loop, and then the timeout result is returned
SleepEnds ==
  /\ wait.pc = "sleep"
  /\ now' = now + pollInterval
  /\ wait' = IF now' - wait.startTime < wait.timeout
             THEN [wait EXCEPT !.pc = "exec"]
             ELSE [wait EXCEPT !.pc = "done", !.out = "timeout", !.waitTime = wait.timeout]
  /\ UNCHANGED <<file, procs, policy, peer, ui, machine, result>>

NextTools ==
  \/ \E tool \in DumpTools, text \in SearchTexts, requested \in RequestedTimeouts :
       ToolStart(tool, text, requested)
  \/ \E res \in ExecResults, d \in ExecDurations : ExecEnds(res, d)
  \/ SleepEnds

SpecTools == InitTools /\ [][NextTools]_vars

\* every execAsync settles (the command ends or its own timeout kills it)
\* and every timer fires
SpecToolsLive ==
  /\ SpecTools
  /\ WF_vars(\E res \in ExecResults, d \in ExecDurations : ExecEnds(res, d))
  /\ WF_vars(SleepEnds)

(***************************************************************************)
(* getMachineId and the module variable cachedMachineId.  The platform     *)
(* source is /etc/machine-id on linux, the output of `wmic csproduct get   *)
(* uuid` on win32 and of `ioreg ... | grep IOPlatformUUID` on darwin; a    *)
(* source is missing, throws when read or run, or yields a text.           *)
(***************************************************************************)
MaxCalls == 3

Source(kind, text) == [kind |-> kind, text |-> text]

\* str.split("\n"): the lines of str
RECURSIVE Split(_, _)
Split(str, line) ==
  IF str = <<>> THEN <<line>>
  ELSE IF Head(str) = "\n" THEN <<line>> \o Split(Tail(str), <<>>)
       ELSE Split(Tail(str), Append(line, Head(str)))

HexUpper == {"A", "B", "C", "D", "E", "F", "0", "1", "2", "3", "4", "5", "6", "7", "8", "9", "-"}

\* the end of the run of [A-F0-9-] characters that starts at i
RECURSIVE UuidRunEnd(_, _)
UuidRunEnd(s, i) ==
  IF i <= Len(s) /\ s[i] \in HexUpper THEN UuidRunEnd(s, i + 1) ELSE i

\* output.match(/"([A-F0-9-]+)"/): whether it matches, and group 1 of the leftmost match
UuidMatch(s) ==
  LET at(i) == /\ s[i] = "\""
               /\ UuidRunEnd(s, i + 1) > i + 1
               /\ UuidRunEnd(s, i + 1) <= Len(s)
               /\ s[UuidRunEnd(s, i + 1)] = "\""
  IN IF \E i \in 1..Len(s) : at(i)
     THEN LET i == CHOOSE j \in 1..Len(s) : at(j) /\ \A k \in 1..(j - 1) : ~at(k)
          IN [ok |-> TRUE, group |-> SubSeq(s, i + 1, UuidRunEnd(s, i + 1) - 1)]
     ELSE [ok |-> FALSE, group |-> <<>>]

\* the try block of getMachineId: set: cachedMachineId was assigned and
\* returned, value: what was assigned
PlatformId(platform, source) ==
  LET none == [set |-> FALSE, value |-> <<>>]
  IN CASE platform = "win32" ->
            IF source.kind # "text" THEN none
            ELSE LET lines == Split(trim(source.text), <<>>)
                 IN IF Len(lines) > 1 THEN [set |-> TRUE, value |-> trim(lines[2])] ELSE none
       [] platform = "linux" ->
            IF source.kind = "missing" \/ source.kind = "throws" THEN none
            ELSE [set |-> TRUE, value |-> trim(source.text)]
       [] platform = "darwin" ->
            IF source.kind # "text" THEN none
            ELSE LET match == UuidMatch(source.text)
                 IN IF match.ok THEN [set |-> TRUE, value |-> match.group] ELSE none
       [] OTHER -> none

\* getMachineId() in the state m: the value returned, the cachedMachineId
\* left behind, and whether the platform was consulted
getMachineIdIn(m) ==
  IF Truthy(m.cachedMachineId)
  THEN [value |-> m.cachedMachineId.c, cached |-> m.cachedMachineId, consulted |-> FALSE]
  ELSE LET id == PlatformId(m.platform, m.source)
           value == IF id.set THEN id.value ELSE m.hostname
       IN [value |-> value, cached |-> JChars(value), consulted |-> TRUE]

Platforms == {"win32", "linux", "darwin", "freebsd"}

Sources ==
  { Source("missing", <<>>),
    Source("throws", <<>>),
    Source("text", <<>>),
    Source("text", <<"\n">>),
    Source("text", <<"a", "b", "1", "2", "\n">>),
    Source("text", <<"c", "d", "3", "4", "\n">>),
    Source("text", <<"U", "U", "I", "D", " ", "\r", "\n", "A", "B", "-", "1", "2", " ", "\r", "\n">>),
    Source("text", <<"U", "U", "I", "D", " ", "\r", "\n">>),
    Source("text", <<"\"", "I", "O", "U", "\"", " ", "=", " ", "\"", "A", "B", "-", "1", "2", "\"", "\n">>) }

Hostnames == {<<"h", "o", "s", "t", "-", "a">>, <<"h", "o", "s", "t", "-", "b">>}

InitMachine ==
  /\ now = StartTime
  /\ file = Absent
  /\ procs = [p \in Handlers |-> Idle]
  /\ policy = NoPolicyCall
  /\ peer = NoPeer
  /\ ui = NoUi
  /\ wait = NoWait
  /\ result = NoResult
  /\ \E platform \in Platforms, source \in Sources, hostname \in Hostnames :
       machine = [NoMachine EXCEPT !.platform = platform, !.source = source,
                                   !.hostname = hostname]

\* a call of getMachineId (by getCacheSecret, to sign or to verify)
CallGetMachineId ==
  /\ Len(machine.returns) < MaxCalls
  /\ LET r == getMachineIdIn(machine)
     IN machine' = [machine EXCEPT !.cachedMachineId = r.cached,
                                   !.returns = Append(@, r.value),
                                   !.consulted = @ + (IF r.consulted THEN 1 ELSE 0)]
  /\ UNCHANGED <<file, now, procs, policy, peer, ui, wait, result>>

\* the platform source changes while the process runs
SourceChanges(source) ==
  /\ machine.source # source
  /\ machine' = [machine EXCEPT !.source = source]
  /\ UNCHANGED <<file, now, procs, policy, peer, ui, wait, result>>

\* the hostname changes while the process runs
HostnameChanges(hostname) ==
  /\ machine.hostname # hostname
  /\ machine' = [machine EXCEPT !.hostname = hostname]
  /\ UNCHANGED <<file, now, procs, policy, peer, ui, wait, result>>

NextMachine ==
  \/ CallGetMachineId
  \/ \E source \in Sources : SourceChanges(source)
  \/ \E hostname \in Hostnames : HostnameChanges(hostname)

SpecMachine == InitMachine /\ [][NextMachine]_vars

(***************************************************************************)
(* index.ts: how the handlers shape their results: the line count of the   *)
(* log tools, the device list of list_devices, the verdict of              *)
(* assert_element and the element list of get_ui_tree.  A number that is   *)
(* an argument is held in tenths, so that Math.floor has something to do.  *)
(***************************************************************************)
DefaultLines == 50

\* Math.floor of a number held in tenths
Floor(x) == (x \div 10) * 10

\* lines 628-631 with the tier's maximum left out
ClipLines_NoMaximum(lines, maxLines) ==
  LET requestedLines == OrElse(lines, JNum(10 * DefaultLines)).n
  IN Max(10, Floor(requestedLines)) \div 10

\* (args.lines || 50), then Math.max(1, Math.min(Math.floor(requestedLines), maxLines))
ClipLines(lines, maxLines) ==
  LET requestedLines == OrElse(lines, JNum(10 * DefaultLines)).n
  IN Max(10, Min(Floor(requestedLines), 10 * maxLines)) \div 10

LogTools == {"get_adb_logs", "get_metro_logs", "get_ios_simulator_logs"}

\* the result of a log tool: the command fetches `lines` lines, or fails
LogResult(tool, tier, lines, platform, execOk) ==
  IF tool = "get_ios_simulator_logs" /\ platform # "darwin"
  THEN [op |-> tool, tier |-> tier, requested |-> lines, out |-> "macos_only", lines |-> 0]
  ELSE [op |-> tool, tier |-> tier, requested |-> lines,
        out |-> IF execOk THEN "logs" ELSE "failed",
        lines |-> ClipLines(lines, getMaxLogLines(tier))]

\* devices.slice(0, maxDevices)
Slice(seq, n) == SubSeq(seq, 1, Min(n, Len(seq)))

\* list_devices: the devices shown, and whether the upgrade note is added
ListDevicesResult(devices, tier) ==
  LET maxDevices == getMaxDevices(tier)
  IN IF Len(devices) = 0
     THEN [op |-> "list_devices", tier |-> tier, devices |-> devices, out |-> "none",
           limited |-> <<>>, note |-> FALSE]
     ELSE [op |-> "list_devices", tier |-> tier, devices |-> devices, out |-> "listed",
           limited |-> Slice(devices, maxDevices), note |-> Len(devices) > maxDevices]

Device(id, status) == [id |-> id, status |-> status]

\* what listConnectedDevices returns
DeviceLists ==
  { <<>>,
    <<Device("emulator-5554", "device")>>,
    <<Device("emulator-5556", "offline"), Device("emulator-5554", "device")>>,
    <<Device("emulator-5554", "device"), Device("R58M", "unauthorized"), Device("emulator-5556", "device")>>,
    <<Device("R58M", "device"), Device("emulator-5558", "device"), Device("emulator-5554", "device"),
      Device("emulator-5556", "device")>> }

\* the lines argument, in tenths
LinesArgs ==
  {JUndef} \cup
  {JNum(n) : n \in {0, 5, 10, 15, -10, -15, 490, 500, 505, 510, 1995, 2000, 2010, 2000000000}}

\* assert_element after the lookup: shouldExist defaults to true
AssertElementResult(found, args) ==
  LET shouldExist == Get(args, "shouldExist") # JBool(FALSE)
      exists == found.ok
      passed == shouldExist = exists
  IN [op |-> "assert_element", args |-> args, found |-> found, out |-> "ok",
      passed |-> passed, exists |-> exists, shouldExist |-> shouldExist,
      element |-> IF found.ok
                  THEN [isNull |-> FALSE, text |-> found.el.text, enabled |-> found.el.enabled]
                  ELSE [isNull |-> TRUE, text |-> <<>>, enabled |-> FALSE]]

AssertArgs(shouldExist, isEnabled, isChecked) ==
  << [k |-> "shouldExist", v |-> shouldExist], [k |-> "isEnabled", v |-> isEnabled],
     [k |-> "isChecked", v |-> isChecked] >>

Flags == {JUndef, JBool(TRUE), JBool(FALSE)}

\* className.split(".").pop()
RECURSIVE LastSegment(_, _)
LastSegment(str, seg) ==
  IF str = <<>> THEN seg
  ELSE IF Head(str) = "." THEN LastSegment(Tail(str), <<>>)
       ELSE LastSegment(Tail(str), Append(seg, Head(str)))

\* the filter of the compressed tree
Interesting(el) == el.clickable \/ el.text # <<>> \/ el.contentDescription # <<>>

\* one element as get_ui_tree reports it; center is left out when undefined
Reported(el) ==
  LET center == el.hasCenter /\ el.centerX # 0 /\ el.centerY # 0
  IN [text |-> el.text, resourceId |-> el.resourceId,
      className |-> LastSegment(el.className, <<>>),
      contentDescription |-> el.contentDescription, bounds |-> el.bounds,
      clickable |-> el.clickable, hasCenter |-> center,
      x |-> IF center THEN el.centerX ELSE 0, y |-> IF center THEN el.centerY ELSE 0]

\* get_ui_tree after the parse
UiTreeResult(elements, compressed) ==
  LET filtered == IF compressed # JBool(FALSE) THEN SelectSeq(elements, Interesting) ELSE elements
  IN [op |-> "get_ui_tree", compressed |-> compressed, out |-> "ok", filtered |-> filtered,
      elementCount |-> Len(filtered),
      elements |-> [i \in 1..Len(filtered) |-> Reported(filtered[i])]]

\* the catch branch of a handler
FailedResult(op) == [op |-> op, out |-> "failed"]

\* <node text="Origin" class="android.view.View" bounds="[0,0][1,1]">
NodeOrigin ==
  <<"<", "n", "o", "d", "e", " ", "t", "e", "x", "t", "=", "\"", "O", "r", "i", "g", "i", "n",
    "\"", " ", "c", "l", "a", "s", "s", "=", "\"", "a", "n", "d", "r", "o", "i", "d", ".", "v",
    "i", "e", "w", ".", "V", "i", "e", "w", "\"", " ", "b", "o", "u", "n", "d", "s", "=", "\"",
    "[", "0", ",", "0", "]", "[", "1", ",", "1", "]", "\"", ">">>

\* <node text="" class="a.View" clickable="true" bounds="[0,10][0,30]">
NodeLeftEdge ==
  <<"<", "n", "o", "d", "e", " ", "t", "e", "x", "t", "=", "\"", "\"", " ", "c", "l", "a", "s",
    "s", "=", "\"", "a", ".", "V", "i", "e", "w", "\"", " ", "c", "l", "i", "c", "k", "a", "b",
    "l", "e", "=", "\"", "t", "r", "u", "e", "\"", " ", "b", "o", "u", "n", "d", "s", "=",
    "\"", "[", "0", ",", "1", "0", "]", "[", "0", ",", "3", "0", "]", "\"", ">">>

\* <node text="" class="a.View" clickable="false" bounds="[2,2][4,4]">
NodeHidden ==
  <<"<", "n", "o", "d", "e", " ", "t", "e", "x", "t", "=", "\"", "\"", " ", "c", "l", "a", "s",
    "s", "=", "\"", "a", ".", "V", "i", "e", "w", "\"", " ", "c", "l", "i", "c", "k", "a", "b",
    "l", "e", "=", "\"", "f", "a", "l", "s", "e", "\"", " ", "b", "o", "u", "n", "d", "s", "=",
    "\"", "[", "2", ",", "2", "]", "[", "4", ",", "4", "]", "\"", ">">>

\* <node text="Submit" class="a.CheckBox" checked="true" enabled="true" bounds="[10,10][30,30]">
NodeChecked ==
  <<"<", "n", "o", "d", "e", " ", "t", "e", "x", "t", "=", "\"", "S", "u", "b", "m", "i", "t",
    "\"", " ", "c", "l", "a", "s", "s", "=", "\"", "a", ".", "C", "h", "e", "c", "k", "B", "o",
    "x", "\"", " ", "c", "h", "e", "c", "k", "e", "d", "=", "\"", "t", "r", "u", "e", "\"",
    " ", "e", "n", "a", "b", "l", "e", "d", "=", "\"", "t", "r", "u", "e", "\"", " ", "b", "o",
    "u", "n", "d", "s", "=", "\"", "[", "1", "0", ",", "1", "0", "]", "[", "3", "0", ",", "3",
    "0", "]", "\"", ">">>

\* <node text="Submit" class="a.CheckBox" checked="false" enabled="true" bounds="[10,10][30,30]">
NodeUnchecked ==
  <<"<", "n", "o", "d", "e", " ", "t", "e", "x", "t", "=", "\"", "S", "u", "b", "m", "i", "t",
    "\"", " ", "c", "l", "a", "s", "s", "=", "\"", "a", ".", "C", "h", "e", "c", "k", "B", "o",
    "x", "\"", " ", "c", "h", "e", "c", "k", "e", "d", "=", "\"", "f", "a", "l", "s", "e",
    "\"", " ", "e", "n", "a", "b", "l", "e", "d", "=", "\"", "t", "r", "u", "e", "\"", " ",
    "b", "o", "u", "n", "d", "s", "=", "\"", "[", "1", "0", ",", "1", "0", "]", "[", "3", "0",
    ",", "3", "0", "]", "\"", ">">>

\* what `uiautomator dump` prints to the handlers below
ResultDumps ==
  { SmallDump,
    <<Run(Hierarchy, 1), Run(NodeSubmit, 1), Run(CloseHierarchy, 1)>>,
    <<Run(Hierarchy, 1), Run(NodeChecked, 1), Run(NodeSubmit, 1), Run(CloseHierarchy, 1)>>,
    <<Run(Hierarchy, 1), Run(NodeUnchecked, 1), Run(CloseHierarchy, 1)>>,
    <<Run(Hierarchy, 1), Run(NodeHidden, 1), Run(NodeOrigin, 1), Run(NodeCancel, 1), Run(CloseHierarchy, 1)>>,
    <<Run(Hierarchy, 1), Run(NodeLeftEdge, 1), Run(NodeBadBounds, 1), Run(NodeSubmit, 1), Run(CloseHierarchy, 1)>>,
    SmallDump \o <<Run(Blank, MAX_XML_SIZE)>> }

InitResults ==
  /\ now = StartTime
  /\ file = Absent
  /\ procs = [p \in Handlers |-> Idle]
  /\ policy = NoPolicyCall
  /\ peer = NoPeer
  /\ ui = NoUi
  /\ wait = NoWait
  /\ machine = NoMachine
  /\ result = NoResult

\* get_adb_logs, get_metro_logs or get_ios_simulator_logs is handled
CallLogTool(tool, tier, lines, platform, execOk) ==
  /\ result = NoResult
  /\ result' = LogResult(tool, tier, lines, platform, execOk)
  /\ UNCHANGED <<file, now, procs, policy, peer, ui, wait, machine>>

\* list_devices is handled
CallListDevices(devices, tier) ==
  /\ result = NoResult
  /\ result' = ListDevicesResult(devices, tier)
  /\ UNCHANGED <<file, now, procs, policy, peer, ui, wait, machine>>

\* the lookup of get_element_property and assert_element in a dump
Lookup(dump, text) ==
  findElementInTree(parseUiTree(dump).elements, Criteria(text, JUndef, JUndef, JUndef))

\* assert_element is handled
CallAssertElement(dump, text, args) ==
  /\ result = NoResult
  /\ result' = IF parseUiTree(dump).threw THEN FailedResult("assert_element")
               ELSE AssertElementResult(Lookup(dump, text), args)
  /\ UNCHANGED <<file, now, procs, policy, peer, ui, wait, machine>>

\* get_ui_tree is handled
CallGetUiTree(dump, compressed) ==
  /\ result = NoResult
  /\ result' = IF parseUiTree(dump).threw THEN FailedResult("get_ui_tree")
               ELSE UiTreeResult(parseUiTree(dump).elements, compressed)
  /\ UNCHANGED <<file, now, procs, policy, peer, ui, wait, machine>>

\* the handler's result is sent to the caller
ResultSent ==
  /\ result # NoResult
  /\ result' = NoResult
  /\ UNCHANGED <<file, now, procs, policy, peer, ui, wait, machine>>

NextResults ==
  \/ ResultSent
  \/ \E tool \in LogTools, tier \in {"free", "advanced"}, lines \in LinesArgs,
        platform \in {"darwin", "linux"}, execOk \in BOOLEAN :
       CallLogTool(tool, tier, lines, platform, execOk)
  \/ \E devices \in DeviceLists, tier \in {"free", "advanced"} : CallListDevices(devices, tier)
  \/ \E dump \in ResultDumps, f1 \in Flags, f2 \in Flags, f3 \in Flags :
       CallAssertElement(dump, JChars(TextSubmit), AssertArgs(f1, f2, f3))
  \/ \E dump \in ResultDumps, compressed \in Flags : CallGetUiTree(dump, compressed)

SpecResults == InitResults /\ [][NextResults]_vars

(***************************************************************************)
(* Properties.                                                             *)
(***************************************************************************)
\* the stored signature is the keyed hash of the stored data under this machine's key
VerifiesHere(f) ==
  /\ f.form = "envelope"
  /\ f.hasData
  /\ f.sigKind = "string"
  /\ f.sig = Hmac(getCacheSecret(ThisMachine), f.data)

HasLicenseKey(f) == Truthy(Get(f.data, "licenseKey"))

AgeAt(f, t) == t - Get(f.data, "lastValidated").n

StoredTier(f) == Get(f.data, "tier").s

\* what the validation of a step's response gave
Validation(p, resp, writeOk) ==
  validateWithLemonSqueezy(file, procs[p].key, resp, now, writeOk)

\* C1: tier resolution fails closed.  A resolution that completes gives
\* 'advanced' only (a) straight from a cache file whose signature verifies on
\* this machine, that has a license key, is fresh and says advanced, or (b)
\* from a re-validation of this resolution that returned an advanced record;
\* every other resolution, a rejected validation promise included, gives
\* 'free', and every resolution gives a tier (none ends in an error).
C1_FailsClosed ==
  [][\A p \in DOMAIN procs :
       (procs[p].pc \in {"idle", "revalidating"} /\ procs'[p].pc # procs[p].pc) =>
         /\ procs'[p].pc \in {"revalidating", "resolved"}
         /\ procs'[p].pc = "resolved" =>
              /\ procs'[p].tier \in {"free", "advanced"}
              /\ procs'[p].tier = "advanced" =>
                   \/ /\ procs[p].pc = "idle"
                      /\ VerifiesHere(file) /\ HasLicenseKey(file)
                      /\ AgeAt(file, now) < CACHE_TTL_MS
                      /\ StoredTier(file) = "advanced"
                   \/ /\ procs[p].pc = "revalidating"
                      /\ \E resp \in Responses, writeOk \in BOOLEAN :
                           /\ Revalidated(p, resp, writeOk)
                           /\ Validation(p, resp, writeOk).info.status = "ok"
                           /\ Validation(p, resp, writeOk).info.tier = "advanced"
    ]_vars

\* C1 witness: a resolution whose validation promise rejected has resolved to free
C1_Witness ==
  \E p \in DOMAIN procs :
    procs[p].pc = "resolved" /\ procs[p].via = "exception" /\ procs[p].tier = "free"

\* the failures C2 lists: network error, timeout, malformed body, valid: false
ListedFailures == {"error", "timeout", "malformed", "valid_false"}

C3_FreshnessRule ==
  [][\A p \in DOMAIN procs :
       /\ (procs[p].pc = "idle" /\ procs'[p].pc # "idle") =>
            LET usable == VerifiesHere(file) /\ HasLicenseKey(file)
            IN /\ (procs'[p].pc = "resolved" /\ procs'[p].via = "fresh")
                    <=> (usable /\ AgeAt(file, now) < CACHE_TTL_MS)
               /\ procs'[p].via = "fresh" => procs'[p].tier = StoredTier(file)
               /\ procs'[p].pc = "revalidating"
                    <=> (usable /\ AgeAt(file, now) >= CACHE_TTL_MS)
               /\ procs'[p].pc = "revalidating" => procs'[p].key = Get(file.data, "licenseKey")
       /\ ( /\ procs[p].pc = "revalidating"
            /\ procs'[p].pc # "revalidating"
            /\ procs'[p].net \notin {"valid_true", "valid_other"} ) =>
            procs'[p].tier = "free"
    ]_vars

\* C3 witness: a record exactly TTL old is being re-validated
C3_Witness ==
  \E p \in DOMAIN procs :
    /\ procs[p].pc = "revalidating"
    /\ VerifiesHere(file)
    /\ AgeAt(file, now) = CACHE_TTL_MS

\* a step in which handler p's checkLicense starts, and so loads the cache
LoadsCache(p) == procs[p].pc = "idle" /\ procs'[p].pc # "idle"

\* C4: cache load integrity.  load returns the embedded record iff the stored
\* signature is the keyed hash of the stored data under this machine's key;
\* for every other content of an existing file (data or signature changed,
\* signature or data missing, content that does not parse, an envelope
\* signed on another machine) it returns absent and the file is removed.
C4_LoadIntegrity ==
  [][\A p \in DOMAIN procs :
       LoadsCache(p) =>
         LET ld == loadCachedLicense(file)
         IN /\ ld.ret.ok <=> VerifiesHere(file)
            /\ ld.ret.ok => (ld.ret.data = file.data /\ file' = file)
            /\ (~ld.ret.ok /\ file.form # "absent") => file' = Absent
    ]_vars

\* a step in which the validation setLicenseKey awaited ends
ActivationEnds(p) == procs[p].pc = "activating" /\ procs'[p].pc = "done"

\* a step in which the re-validation checkLicense awaited ends
RevalidationEnds(p) == procs[p].pc = "revalidating" /\ procs'[p].pc = "resolved"

\* C5: a validation that returns none leaves the cache file as it was before
\* the call, absent or present; a failed set_license_key issued while a valid
\* cache exists is such a call.
C5_FailedValidationKeepsCache ==
  [][\A p \in DOMAIN procs :
       (ActivationEnds(p) /\ procs'[p].out = "key_invalid") => file' = file
    ]_vars

\* the license record a validation that ended in this step returned, read
\* back from the cache file it left: signed for this machine, loadable, with
\* the returned tier and expiresAt, the validated key and the validation time,
\* and resolving to that tier without a remote call for the next TTL
PersistedRecord(p, tier) ==
  LET ld == loadCachedLicense(file')
  IN /\ VerifiesHere(file')
     /\ ld.ret.ok /\ ld.file = file'
     /\ Get(ld.ret.data, "tier") = JStr(tier)
     /\ Get(ld.ret.data, "licenseKey") = procs[p].key
     /\ Get(ld.ret.data, "expiresAt") = procs'[p].expiresAt
     /\ Get(ld.ret.data, "lastValidated") = JNum(now)
     /\ \A t \in {now, now + TickMs, now + CACHE_TTL_MS - 1} :
          LET st == checkLicense_Start(file', t)
          IN st.next = "return" /\ st.via = "fresh" /\ st.tier = tier /\ st.file = file'
     /\ checkLicense_Start(file', now + CACHE_TTL_MS).next = "await"

C7_OnlyValidTrueAccepted ==
  [][\A p \in DOMAIN procs :
       /\ (ActivationEnds(p) /\ procs'[p].net \in {"valid_absent", "valid_false", "valid_other"})
            => (procs'[p].out = "key_invalid" /\ file' = file)
       /\ (RevalidationEnds(p) /\ procs'[p].net \in {"valid_absent", "valid_false", "valid_other"})
            => (procs'[p].via = "reval_failed" /\ procs'[p].tier = "free" /\ file' = Absent)
    ]_vars

\* the free set, the advanced set and the catalogue of tool names
FreeSet == {FREE_TOOLS[i] : i \in 1..Len(FREE_TOOLS)}

AdvancedSet == {ADVANCED_TOOLS[i] : i \in 1..Len(ADVANCED_TOOLS)}

CatalogueSize == 21

\* C8: for every tool name T and tier t in {free, advanced}, canAccessTool(T, t)
\* is true iff T is in the free set, or t = advanced and T is in the advanced
\* set; a name outside the 21-tool catalogue, the empty string included, is
\* denied for both tiers.
C8_CanAccessTool ==
  /\ Cardinality(FreeSet \cup AdvancedSet) = CatalogueSize
  /\ (policy.op = "canAccessTool" /\ policy.tier \in {"free", "advanced"}) =>
       /\ policy.allowed <=>
            \/ policy.toolName \in FreeSet
            \/ policy.tier = "advanced" /\ policy.toolName \in AdvancedSet
       /\ policy.toolName \notin (FreeSet \cup AdvancedSet) => ~policy.allowed

\* C8 witness: an advanced-only tool was denied for the free tier
C8_Witness ==
  /\ policy.op = "canAccessTool" /\ policy.tier = "free"
  /\ policy.toolName = "set_license_key" /\ ~policy.allowed

\* C9: entitlement is monotone.  The free set is a subset of the advanced set,
\* a tool allowed for free is allowed for advanced, and both limits of
\* advanced are strictly greater than those of free.
C9_Monotone ==
  /\ \A i \in 1..Len(FREE_TOOLS) : ArrayIncludes(ADVANCED_TOOLS, FREE_TOOLS[i])
  /\ (policy.op = "canAccessTool" /\ policy.tier = "free" /\ policy.allowed) =>
       canAccessTool(policy.toolName, "advanced")
  /\ (policy.op = "getMaxLogLines" /\ policy.tier = "advanced") =>
       policy.limit > getMaxLogLines("free")
  /\ (policy.op = "getMaxDevices" /\ policy.tier = "advanced") =>
       policy.limit > getMaxDevices("free")
  /\ TIER_LIMITS["advanced"].maxLogLines > TIER_LIMITS["free"].maxLogLines
  /\ TIER_LIMITS["advanced"].maxDevices > TIER_LIMITS["free"].maxDevices

\* C9 witness: a tool was allowed for the free tier
C9_Witness ==
  policy.op = "canAccessTool" /\ policy.tier = "free" /\ policy.allowed

\* C10: limits fail closed.  For a tier value that is neither 'free' nor
\* 'advanced', getMaxLogLines and getMaxDevices return the free tier's limits,
\* 50 and 1; for 'free' and 'advanced' they return 50/1 and 200/3.
C10_LimitsFailClosed ==
  /\ policy.op = "getMaxLogLines" =>
       policy.limit = (IF policy.tier = "advanced" THEN AdvancedMaxLogLines ELSE FreeMaxLogLines)
  /\ policy.op = "getMaxDevices" =>
       policy.limit = (IF policy.tier = "advanced" THEN AdvancedMaxDevices ELSE FreeMaxDevices)

\* C10 witness: getMaxLogLines("bogus-tier") returned the free limit
C10_Witness ==
  policy.op = "getMaxLogLines" /\ policy.tier = "bogus-tier" /\ policy.limit = FreeMaxLogLines

\* a step in which handler p's handleTool runs, up to its return or its await
HandleToolRuns(p) ==
  procs[p].pc = "resolved" /\ procs[p].name # ListTools /\ procs'[p].pc # "resolved"

\* C11: a tool invocation the policy denies for the resolved tier returns a
\* normal result, the upgrade message, and is handled before anything else:
\* handleTool issues no device command, validates no argument (an invalid
\* device id still gets the upgrade message), starts no license validation
\* and leaves the cache file as it is.
C11_DeniedIsHandledFirst ==
  [][\A p \in DOMAIN procs :
       (HandleToolRuns(p) /\ ~canAccessTool(procs[p].name, procs[p].tier)) =>
         /\ procs'[p].pc = "done"
         /\ procs'[p].out = "denied"
         /\ procs'[p].cmds = 0
         /\ ~procs'[p].checked
         /\ procs'[p].key = JUndef
         /\ file' = file
    ]_vars

\* C11 witness: get_ui_tree with an invalid device id was denied for the free tier
C11_Witness ==
  \E p \in DOMAIN procs :
    /\ procs[p].pc = "done" /\ procs[p].out = "denied"
    /\ procs[p].name = "get_ui_tree" /\ procs[p].tier = "free"
    /\ ~validateDeviceId(Get(procs[p].args, "device").c)

\* C12: activation through the tool interface.  From the free tier with no
\* cache file, set_license_key with a well-formed key reaches the validation
\* endpoint; once the endpoint accepts the key for an advanced product the
\* cache holds an advanced record that a following request resolves from.
C12_ActivationFromFree ==
  [][\A p \in DOMAIN procs :
       /\ ( /\ HandleToolRuns(p)
            /\ procs[p].name = "set_license_key" /\ procs[p].tier = "free"
            /\ file = Absent
            /\ setLicenseKey_Start(Get(procs[p].args, "licenseKey")).out = "await" ) =>
            procs'[p].pc = "activating"
       /\ ( /\ ActivationEnds(p)
            /\ procs[p].tier = "free"
            /\ procs'[p].net = "valid_true" /\ procs'[p].wrote /\ procs'[p].got = "advanced" ) =>
            /\ VerifiesHere(file') /\ StoredTier(file') = "advanced"
            /\ checkLicense_Start(file', now).tier = "advanced"
    ]_vars

\* the responses by which the validation endpoint rejects a key, or by which
\* the exchange fails without an answer
Rejections == {"valid_false", "valid_absent", "malformed", "error", "timeout"}

C13_SaveIsAtomic ==
  peer.loaded => peer.seen \in {peer.prev, peer.next}

\* b occurs in a as a contiguous substring, letters compared exactly
ContainsExactly(a, b) ==
  \E i \in 0..(Len(a) - Len(b)) : \A k \in 1..Len(b) : a[i + k] = b[k]

\* b occurs in a as a contiguous substring, letters compared without case
ContainsIgnoringCase(a, b) ==
  \E i \in 0..(Len(a) - Len(b)) : \A k \in 1..Len(b) : LowerOf(a[i + k]) = LowerOf(b[k])

\* at least one criterion among those in `given` matches the element
AnyCriterionMatches(el, criteria, given) ==
  \/ "text" \in given /\ ContainsIgnoringCase(el.text, Get(criteria, "text").c)
  \/ "resourceId" \in given /\ ContainsExactly(el.resourceId, Get(criteria, "resourceId").c)
  \/ "contentDescription" \in given
       /\ ContainsIgnoringCase(el.contentDescription, Get(criteria, "contentDescription").c)
  \/ "className" \in given /\ ContainsExactly(el.className, Get(criteria, "className").c)

CriteriaNames == {"text", "resourceId", "contentDescription", "className"}

\* the criteria the caller supplied, and those supplied with a non-empty string
Supplied(criteria) == {k \in CriteriaNames : Get(criteria, k) # JUndef}

SuppliedNonEmpty(criteria) == {k \in CriteriaNames : Get(criteria, k) # JUndef /\ Get(criteria, k).c # <<>>}

\* the call returned the element of least index that matches, null when none does
ReturnsFirstMatch(given) ==
  LET hits == {i \in 1..Len(ui.elements) : AnyCriterionMatches(ui.elements[i], ui.criteria, given)}
  IN IF hits = {} THEN ~ui.out.ok
     ELSE ui.out.ok /\ ui.out.el = ui.elements[CHOOSE i \in hits : \A j \in hits : i <= j]

\* C15 as stated: findElementInTree returns the element of least index for
\* which at least one supplied criterion matches (text and contentDescription
\* by case-insensitive containment, resourceId and className by
\* case-sensitive containment), and null when no element matches or the list
\* is empty.
C15_FirstMatchOfSupplied ==
  ui.op = "findElementInTree" => ReturnsFirstMatch(Supplied(ui.criteria))

\* C15 amended: the same, a criterion counting as supplied only when it is a
\* non-empty string (an empty string is skipped, it matches nothing).
C15_FirstMatchOfNonEmpty ==
  ui.op = "findElementInTree" => ReturnsFirstMatch(SuppliedNonEmpty(ui.criteria))

\* C15 witness: text "Submit" and a resourceId that matches nothing were
\* looked up in a list whose first element is Cancel; the second, "submit",
\* was returned
C15_Witness ==
  /\ ui.op = "findElementInTree"
  /\ Get(ui.criteria, "text") = JChars(TextSubmit)
  /\ Get(ui.criteria, "resourceId") = JChars(IdOkLower)
  /\ Len(ui.elements) >= 2
  /\ ui.elements[1] = UiElement(NodeCancel)
  /\ ui.out.ok /\ ui.out.el = ui.elements[2]

\* the number of node declarations in a dump
RECURSIVE NodeCount(_)
NodeCount(dump) ==
  IF dump = <<>> THEN 0
  ELSE Len(NodeMatches(Head(dump).text, 1)) * Head(dump).times + NodeCount(Tail(dump))

\* the elements of the node declarations written in one run's text, in order
BuiltFrom(run) ==
  [k \in 1..Len(NodeMatches(run.text, 1)) |-> UiElement(NodeMatches(run.text, 1)[k])]

\* C16: for a dump within the size ceiling that contains n node declarations
\* parseUiTree returns min(n, MAX_ELEMENTS) elements, the i-th built from the
\* i-th declaration in document order (the j-th declaration of run r is the
\* i-th of the dump for i = j + the declarations of the runs before r); going
\* over the element ceiling truncates and raises no error.
C16_ParseCountAndOrder ==
  (ui.op = "parseUiTree" /\ DumpLength(ui.dump) <= MAX_XML_SIZE) =>
    /\ ~ui.out.threw
    /\ Len(ui.out.elements) = Min(NodeCount(ui.dump), MAX_ELEMENTS)
    /\ \A r \in 1..Len(ui.dump) :
         LET before == NodeCount(SubSeq(ui.dump, 1, r - 1))
             built == BuiltFrom(ui.dump[r])
             kept == Min(before + Len(built) * ui.dump[r].times, MAX_ELEMENTS) - before
         IN kept > 0 =>
              SubSeq(ui.out.elements, before + 1, before + kept)
                = [j \in 1..kept |-> built[((j - 1) % Len(built)) + 1]]

\* C16 witness: a dump of MAX_ELEMENTS + 1 declarations gave MAX_ELEMENTS
\* elements, the last of them the declaration before the one left out
C16_Witness ==
  /\ ui.op = "parseUiTree"
  /\ NodeCount(ui.dump) = MAX_ELEMENTS + 1
  /\ ~ui.out.threw
  /\ Len(ui.out.elements) = MAX_ELEMENTS
  /\ ui.out.elements[MAX_ELEMENTS] = UiElement(NodeSubmit)

\* the end of an integer (digits, with an optional minus sign) that starts at
\* index i of s, 0 when none starts there
IntegerEnd(s, i) ==
  LET from == IF StartsAt(s, <<"-">>, i) THEN i + 1 ELSE i
  IN IF from <= Len(s) /\ DigitsEnd(s, from) > from THEN DigitsEnd(s, from) ELSE 0

\* s is a rectangle literal [x1,y1][x2,y2] of four well-formed integers
IsRectangleLiteral(s) ==
  LET b == IntegerEnd(s, 2)
      d == IntegerEnd(s, b + 1)
      f == IntegerEnd(s, d + 2)
      h == IntegerEnd(s, f + 1)
  IN /\ StartsAt(s, <<"[">>, 1)
     /\ b # 0 /\ StartsAt(s, <<",">>, b)
     /\ d # 0 /\ StartsAt(s, <<"]", "[">>, d)
     /\ f # 0 /\ StartsAt(s, <<",">>, f)
     /\ h # 0 /\ StartsAt(s, <<"]">>, h)
     /\ h = Len(s)

\* C17: for every parsed element centerX and centerY are present iff its
\* bounds attribute is a rectangle literal [x1,y1][x2,y2] of four well-formed
\* integers, and then they are floor((x1+x2)/2) and floor((y1+y2)/2); a
\* malformed bounds value gives an element without center and no error.
C17_CenterIffRectangle ==
  ui.op = "parseUiTree" =>
    \A i \in 1..Len(ui.out.elements) :
      LET el == ui.out.elements[i]
          m == BoundsMatch(el.bounds)
      IN /\ el.hasCenter <=> IsRectangleLiteral(el.bounds)
         /\ el.hasCenter =>
              /\ 2 * el.centerX <= m.x1 + m.x2 /\ m.x1 + m.x2 < 2 * el.centerX + 2
              /\ 2 * el.centerY <= m.y1 + m.y2 /\ m.y1 + m.y2 < 2 * el.centerY + 2

\* C18: a dump larger than the size ceiling makes the operation that
\* consumed it fail with a size-exceeded error, and no element of the dump
\* is parsed or used; this for every dump-consuming tool.
C18_OversizeDumpFails ==
  wait.sawOversize =>
    /\ wait.tool \in DumpTools
    /\ wait.pc = "done"
    /\ wait.out = "failed" /\ wait.error = "size_exceeded"
    /\ wait.used = 0 /\ ~wait.found.ok

\* Math.max(lo, Math.min(x, hi))
Clamp(x, lo, hi) == IF x < lo THEN lo ELSE IF x > hi THEN hi ELSE x

\* the timeout result: found false, timeout true, waitTime at most the clamped timeout
TimeoutResultWithin(limit) ==
  wait.out = "timeout" =>
    /\ ~wait.found.ok
    /\ wait.waitTime <= limit
    /\ wait.waitTime <= MAX_TIMEOUT

\* C19 as stated: wait_for_element clamps the caller's timeout to
\* [1000 ms, 60000 ms], 5000 ms when it is absent, and when the target never
\* appears returns a timeout result whose waitTime is at most the clamped
\* timeout.
C19_TimeoutClamped ==
  (wait.tool = "wait_for_element" /\ wait.pc # "idle") =>
    LET limit == IF wait.requested = JUndef THEN DefaultTimeout
                 ELSE Clamp(wait.requested.n, MinTimeout, MAX_TIMEOUT)
    IN wait.timeout = limit /\ TimeoutResultWithin(limit)

\* C19 amended: the same, a timeout of 0 counting as absent (5000 ms).
C19_TimeoutClampedZeroAsAbsent ==
  (wait.tool = "wait_for_element" /\ wait.pc # "idle") =>
    LET limit == IF wait.requested = JUndef \/ wait.requested = JNum(0) THEN DefaultTimeout
                 ELSE Clamp(wait.requested.n, MinTimeout, MAX_TIMEOUT)
    IN wait.timeout = limit /\ TimeoutResultWithin(limit)

\* C19 witness: a wait asked for 120000 ms ended as a timeout that reports 60000 ms
C19_Witness ==
  /\ wait.tool = "wait_for_element" /\ wait.pc = "done" /\ wait.out = "timeout"
  /\ wait.requested = JNum(2 * MAX_TIMEOUT)
  /\ wait.waitTime = MAX_TIMEOUT

\* C20: wait_for_element blocks for at most its clamped timeout: when it
\* returns, found or timed out, the time elapsed since its start and the
\* waitTime it reports do not exceed the clamped timeout, and the waitTime
\* is the time elapsed.
C20_WaitWithinTimeout ==
  (wait.tool = "wait_for_element" /\ wait.pc = "done" /\ wait.out \in {"found", "timeout"}) =>
    /\ now - wait.startTime <= wait.timeout
    /\ wait.waitTime <= wait.timeout
    /\ wait.waitTime = now - wait.startTime

\* C21: getMachineId never fails and is stable within a run: every call
\* returns a non-empty identifier, the platform sources are consulted at most
\* once per process, and every later call returns what the first call
\* returned, whatever happened to the platform source or the hostname since.
C21_MachineIdStable ==
  /\ \A i \in 1..Len(machine.returns) :
       machine.returns[i] # <<>> /\ machine.returns[i] = machine.returns[1]
  /\ machine.consulted <= 1

\* C22: find_element, wait_for_element, get_element_property and
\* assert_element reject a search parameter longer than 500 characters with
\* an error before any dump is acquired.
C22_LongSearchRejected ==
  (/\ wait.tool \in {"find_element", "wait_for_element", "get_element_property", "assert_element"}
   /\ wait.pc # "idle"
   /\ \E k \in {"text", "resourceId", "contentDescription"} :
        Len(Get(wait.criteria, k).c) > MAX_SEARCH_LEN)
  => (wait.pc = "done" /\ wait.out = "too_long")

\* the limits of a tier as the tier table gives them
TierLimit(tier, field) == TIER_LIMITS[tier][field]

\* C23: results are clipped to the tier's limits: for every integer lines
\* argument (absent, zero, negative, arbitrarily large) the line count a log
\* tool uses lies in [1, maxLogLines(tier)], and list_devices shows exactly
\* the first min(connected, maxDevices(tier)) devices in their order.
C23_ClippedToTier ==
  /\ (result.op \in LogTools /\ result.out # "macos_only") =>
       (1 <= result.lines /\ result.lines <= TierLimit(result.tier, "maxLogLines"))
  /\ result.op = "list_devices" =>
       /\ Len(result.limited) = Min(Len(result.devices), TierLimit(result.tier, "maxDevices"))
       /\ \A i \in 1..Len(result.limited) : result.limited[i] = result.devices[i]

\* C23 witness: the free tier asked for 200 million lines uses 50
C23_Witness ==
  /\ result.op = "get_adb_logs" /\ result.tier = "free" /\ result.out = "logs"
  /\ result.requested = JNum(2000000000)
  /\ result.lines = FreeMaxLogLines

\* C25: assert_element verifies existence and expected state: passed is
\* true only if the element's existence equals shouldExist (default true)
\* and, when isEnabled or isChecked is supplied and the element exists, the
\* element's enabled / checked value equals the expectation.
C25_AssertChecksState ==
  (result.op = "assert_element" /\ result.out = "ok" /\ result.passed) =>
    LET shouldExist == Get(result.args, "shouldExist")
        isEnabled == Get(result.args, "isEnabled")
        isChecked == Get(result.args, "isChecked")
    IN /\ result.found.ok = (shouldExist # JBool(FALSE))
       /\ (isEnabled # JUndef /\ result.found.ok) =>
            JBool(result.found.el.enabled) = isEnabled
       /\ (isChecked # JUndef /\ result.found.ok) =>
            JBool(result.found.el.checked) = isChecked

\* C28: get_ui_tree reports a center {x, y} for an element exactly when the
\* parser derived centerX and centerY for it, a derived 0 included.
C28_CenterReportedIffDerived ==
  (result.op = "get_ui_tree" /\ result.out = "ok") =>
    \A i \in 1..Len(result.elements) :
      /\ result.elements[i].hasCenter = result.filtered[i].hasCenter
      /\ result.elements[i].hasCenter =>
           /\ result.elements[i].x = result.filtered[i].centerX
           /\ result.elements[i].y = result.filtered[i].centerY

\* the number of tools of the free tier
FreeToolCount == 8

\* the names in a list of tool names
NamesOf(list) == {list[i] : i \in 1..Len(list)}

C27_UnknownToolUnreachable ==
  /\ \A t \in NamesOf(tools) : ArrayIncludes(SwitchCases, t)
  /\ \A p \in DOMAIN procs :
       /\ procs[p].out # "unknown_tool"
       /\ (procs[p].pc = "done" /\ procs[p].name # ListTools
           /\ procs[p].name \notin NamesOf(tools)) => procs[p].out = "denied"

\* C27 witness: a name outside the catalogue was denied under the advanced tier
C27_Witness ==
  \E p \in DOMAIN procs :
    /\ procs[p].pc = "done" /\ procs[p].name = "no_such_tool"
    /\ procs[p].tier = "advanced" /\ procs[p].out = "denied"

\* C29: set_license_key reports success only when the entitlement it stored
\* grants the advanced tier: whenever its response has success = true, the
\* record the call wrote has tier advanced and the next tier resolution
\* returns advanced.
C29_SuccessMeansAdvanced ==
  [][\A p \in DOMAIN procs :
       (ActivationEnds(p) /\ procs'[p].out = "activated") =>
         /\ procs'[p].got = "advanced"
         /\ procs'[p].wrote => (VerifiesHere(file') /\ StoredTier(file') = "advanced")
         /\ procs'[p].wrote => checkLicense_Start(file', now).tier = "advanced"
    ]_vars

\* the cache file holds a record a validation of this run wrote, it verifies
\* and it is not stale yet
FreshlyValidated(f, t) ==
  /\ VerifiesHere(f)
  /\ HasLicenseKey(f)
  /\ Get(f.data, "lastValidated").n >= StartTime
  /\ AgeAt(f, t) < CACHE_TTL_MS

\* C26: with requests in flight concurrently, a cache record written by a
\* successful validation is not deleted by the failure path of a resolution
\* that started earlier: while the record is not stale the file stays
\* present and verified (only a validation that started after the write
\* could fail on it, and none starts before the record is stale).
C26_FreshRecordSurvives ==
  [][FreshlyValidated(file, now) => VerifiesHere(file')]_vars

\* a wait_for_element call stands at pc
Waiting(pc) == wait.tool = "wait_for_element" /\ wait.pc = pc

\* the polling loop ends: the call returns a found result or a timeout result
LoopTerminates ==
  (Waiting("exec") \/ Waiting("sleep")) ~>
    (Waiting("done") /\ wait.out \in {"found", "timeout"})

\* C30 as stated: the polling loop of wait_for_element always polls at least
\* once, acquiring and matching at least one dump before it can return a
\* timeout result; each failed acquisition or parse error is followed by a
\* 500 ms sleep and another poll; and the operation eventually returns a
\* found result or a timeout result.
C30_PollsAndTerminates ==
  /\ []((Waiting("done") /\ wait.out = "timeout") => wait.matched)
  /\ [][Waiting("exec") => (wait'.pc = "sleep" \/ wait'.out = "found")]_vars
  /\ [][Waiting("sleep") => (now' = now + pollInterval /\ wait'.pc = "exec")]_vars
  /\ LoopTerminates

\* C30 amended: the loop always attempts at least one dump acquisition
\* before it can return a timeout result; a failed acquisition or a parse
\* error never returns at once but is followed by a 500 ms sleep and the loop
\* test, which starts another poll or, the timeout having elapsed, returns the
\* timeout result; and the operation eventually returns a found result or a
\* timeout result.
C30_AttemptsAndTerminates ==
  /\ []((Waiting("done") /\ wait.out = "timeout") => wait.attempted)
  /\ [][Waiting("exec") => (wait'.pc = "sleep" \/ wait'.out = "found")]_vars
  /\ [][Waiting("sleep") =>
          /\ now' = now + pollInterval
          /\ \/ wait'.pc = "exec" /\ now' - wait.startTime < wait.timeout
             \/ wait'.out = "timeout" /\ now' - wait.startTime >= wait.timeout]_vars
  /\ LoopTerminates

\* C30 witness: a wait whose every acquisition failed ended as a timeout
C30_Witness ==
  /\ Waiting("done") /\ wait.out = "timeout"
  /\ wait.attempted /\ ~wait.matched

====
